---- MODULE Spec2Model ----
(***************************************************************************)
(* Workspace confinement and file operations of the NBocIDE server         *)
(* (src/routes/project.js, src/routes/folders.js, src/server.js).          *)
(*                                                                         *)
(* A path is a string, modelled as a sequence of one-character strings;    *)
(* the host is POSIX, so "/" is the only separator.  The file system is a  *)
(* function from component paths (sequences of names) to entries.  Each    *)
(* request handler is a process whose steps are its filesystem calls: the  *)
(* code between two awaits runs without interruption, every awaited call   *)
(* is one atomic step that other requests may interleave with.             *)
(***************************************************************************)
EXTENDS Integers, Sequences, FiniteSets, TLC

---------------------------------------------------------------------------
(* Strings *)

\* String.prototype.startsWith
StartsWith(s, prefix) ==
    /\ Len(prefix) <= Len(s)
    /\ SubSeq(s, 1, Len(prefix)) = prefix

\* String.prototype.split('/') : the segments between separators
RECURSIVE SplitFrom(_, _, _, _)
SplitFrom(s, i, cur, acc) ==
    IF i > Len(s) THEN Append(acc, cur)
    ELSE IF s[i] = "/" THEN SplitFrom(s, i + 1, <<>>, Append(acc, cur))
    ELSE SplitFrom(s, i + 1, Append(cur, s[i]), acc)

Split(s) == SplitFrom(s, 1, <<>>, <<>>)

\* Array.prototype.join(sep)
RECURSIVE JoinWith(_, _)
JoinWith(segs, sep) ==
    IF Len(segs) = 0 THEN <<>>
    ELSE IF Len(segs) = 1 THEN segs[1]
    ELSE segs[1] \o sep \o JoinWith(Tail(segs), sep)

---------------------------------------------------------------------------
(* Node's path module, POSIX flavour *)

IsAbsolute(s) == Len(s) > 0 /\ s[1] = "/"

HasTrailingSep(s) == Len(s) > 0 /\ s[Len(s)] = "/"

DotDot == <<".", ".">>
Dot == <<".">>

\* normalizeString: drops empty and "." segments, resolves ".." against the
\* segments kept so far; above the start ".." is kept only when allowed.
RECURSIVE NormalizeSegs(_, _, _)
NormalizeSegs(segs, kept, allowAboveRoot) ==
    IF Len(segs) = 0 THEN kept
    ELSE LET seg == Head(segs)
             rest == Tail(segs)
         IN IF seg = <<>> \/ seg = Dot
              THEN NormalizeSegs(rest, kept, allowAboveRoot)
            ELSE IF seg = DotDot
              THEN IF Len(kept) > 0 /\ kept[Len(kept)] # DotDot
                     THEN NormalizeSegs(rest, SubSeq(kept, 1, Len(kept) - 1), allowAboveRoot)
                   ELSE IF allowAboveRoot
                     THEN NormalizeSegs(rest, Append(kept, DotDot), allowAboveRoot)
                   ELSE NormalizeSegs(rest, kept, allowAboveRoot)
            ELSE NormalizeSegs(rest, Append(kept, seg), allowAboveRoot)

\* path.normalize
Normalize(s) ==
    IF Len(s) = 0 THEN Dot
    ELSE LET abs  == IsAbsolute(s)
             body == JoinWith(NormalizeSegs(Split(s), <<>>, ~abs), <<"/">>)
             tail == IF Len(body) > 0 /\ HasTrailingSep(s) THEN <<"/">> ELSE <<>>
         IN IF abs THEN <<"/">> \o body \o tail
            ELSE IF Len(body) = 0
              THEN (IF HasTrailingSep(s) THEN <<".", "/">> ELSE Dot)
            ELSE body \o tail

\* fault: the arguments are concatenated and never normalized
PathJoinUnnormalized(args) ==
    LET used == SelectSeq(args, LAMBDA a : Len(a) > 0)
    IN IF Len(used) = 0 THEN Dot ELSE JoinWith(used, <<"/">>)

\* path.join: empty arguments are skipped, the rest joined by "/" and normalized
PathJoin(args) ==
    LET used == SelectSeq(args, LAMBDA a : Len(a) > 0)
    IN IF Len(used) = 0 THEN Dot ELSE Normalize(JoinWith(used, <<"/">>))

\* path.resolve of one absolute argument: normalized, no trailing separator
PathResolve(s) ==
    <<"/">> \o JoinWith(NormalizeSegs(Split(s), <<>>, FALSE), <<"/">>)

\* path.dirname
PathDirname(s) ==
    LET segs == SelectSeq(Split(s), LAMBDA g : Len(g) > 0)
    IN IF Len(segs) <= 1 THEN (IF IsAbsolute(s) THEN <<"/">> ELSE Dot)
       ELSE (IF IsAbsolute(s) THEN <<"/">> ELSE <<>>)
            \o JoinWith(SubSeq(segs, 1, Len(segs) - 1), <<"/">>)

\* path.basename
PathBasename(s) ==
    LET segs == SelectSeq(Split(s), LAMBDA g : Len(g) > 0)
    IN IF Len(segs) = 0 THEN <<>> ELSE segs[Len(segs)]

\* path.extname: from the last "." of the name, "" when there is none or the
\* name starts with its only "."
RECURSIVE LastDot(_, _)
LastDot(name, i) ==
    IF i = 0 THEN 0 ELSE IF name[i] = "." THEN i ELSE LastDot(name, i - 1)

PathExtname(s) ==
    LET name == PathBasename(s)
        k    == LastDot(name, Len(name))
    IN IF k <= 1 \/ name = DotDot THEN <<>> ELSE SubSeq(name, k, Len(name))

---------------------------------------------------------------------------
(* File contents: a JavaScript string is a sequence of code units, a file  *)
(* holds the code points its UTF-8 bytes decode to.                        *)

IsSurrogate(c) == c >= 55296 /\ c <= 57343

\* fs.writeFile(path, content, 'utf8'): an unpaired surrogate is written as U+FFFD
Utf8Encode(str) ==
    [i \in 1..Len(str) |-> IF IsSurrogate(str[i]) THEN 65533 ELSE str[i]]

\* fs.readFile(path, 'utf8'): what the stored bytes decode to
Utf8Decode(data) == data

Utf8Width(c) == IF c < 128 THEN 1 ELSE IF c < 2048 THEN 2 ELSE 3

RECURSIVE ByteLength(_)
ByteLength(data) ==
    IF Len(data) = 0 THEN 0 ELSE Utf8Width(Head(data)) + ByteLength(Tail(data))

\* fault: tab, line feed and the other white space count as control characters
NonPrintableWithWhiteSpace(c) == (c >= 0 /\ c <= 31) \/ (c >= 127 /\ c <= 159)

\* /[\x00-\x08\x0E-\x1F\x7F-\x9F]/.test(content)
NonPrintable(c) ==
    \/ (c >= 0 /\ c <= 8)
    \/ (c >= 14 /\ c <= 31)
    \/ (c >= 127 /\ c <= 159)

nonPrintableRegexTest(text) == \E i \in 1..Len(text) : NonPrintable(text[i])

---------------------------------------------------------------------------
(* The file system.  fsys maps each existing path, a sequence of names     *)
(* from "/", to its entry; the domain is closed under parents.  The bytes  *)
(* of a file are data followed by pad bytes "a"; a directory reports pad   *)
(* as its size.  A locked entry grants this process no permission at all.  *)
(* A symbolic link holds the absolute path it points to.                   *)

DirEntry == [kind |-> "dir", data |-> <<>>, pad |-> 0, locked |-> FALSE, target |-> <<>>]
FileEntry(data) ==
    [kind |-> "file", data |-> data, pad |-> 0, locked |-> FALSE, target |-> <<>>]
LinkEntry(target) ==
    [kind |-> "link", data |-> <<>>, pad |-> 0, locked |-> FALSE, target |-> target]

\* the names of a path string, as the kernel walks them
Comps(s) == SelectSeq(Split(s), LAMBDA g : Len(g) > 0)

IsPrefix(p, q) == Len(p) <= Len(q) /\ SubSeq(q, 1, Len(p)) = p

Parent(c) == SubSeq(c, 1, Len(c) - 1)

Exists(fsys, c) == c \in DOMAIN fsys

IsDir(fsys, c) == Exists(fsys, c) /\ fsys[c].kind = "dir"

IsFile(fsys, c) == Exists(fsys, c) /\ fsys[c].kind = "file"

\* no directory on the way to c is locked (EACCES otherwise)
Searchable(fsys, c) ==
    \A k \in 0..(Len(c) - 1) :
        Exists(fsys, SubSeq(c, 1, k)) => ~fsys[SubSeq(c, 1, k)].locked

\* a path string names an entry: it exists, it can be reached, and a trailing
\* "/" demands a directory
Names(fsys, s) ==
    /\ Exists(fsys, Comps(s))
    /\ Searchable(fsys, Comps(s))
    /\ HasTrailingSep(s) => IsDir(fsys, Comps(s))

\* the symbolic links one path resolution may follow (ELOOP beyond)
MaxSymlinks == 40

\* path resolution: from the directory resolved so far, the names still to
\* resolve; a link is replaced by its target; fails on a missing name
\* (ENOENT), a file or a locked directory on the way (ENOTDIR, EACCES) and
\* too many links (ELOOP): more than MaxSymlinks, which is where a link met
\* again with the same names left leads
RECURSIVE ResolveFrom(_, _, _, _)
ResolveFrom(fsys, resolved, names, followed) ==
    IF Len(names) = 0 THEN [ok |-> TRUE, c |-> resolved]
    ELSE LET next == Append(resolved, Head(names))
             rest == Tail(names)
         IN IF ~Exists(fsys, next) THEN [ok |-> FALSE, c |-> next]
            ELSE IF fsys[next].kind = "link"
              THEN IF Cardinality(followed) >= MaxSymlinks \/ <<next, rest>> \in followed
                     THEN [ok |-> FALSE, c |-> next]
                   ELSE ResolveFrom(fsys, <<>>, Comps(fsys[next].target) \o rest,
                                    followed \cup {<<next, rest>>})
            ELSE IF Len(rest) > 0 /\ (fsys[next].kind = "file" \/ fsys[next].locked)
              THEN [ok |-> FALSE, c |-> next]
            ELSE ResolveFrom(fsys, next, rest, followed)

\* the entry a path string leads to, every link followed; a trailing "/"
\* demands a directory
RealPath(fsys, s) ==
    LET real == ResolveFrom(fsys, <<>>, Comps(s), {})
    IN IF real.ok /\ HasTrailingSep(s) /\ ~IsDir(fsys, real.c)
         THEN [ok |-> FALSE, c |-> real.c]
       ELSE real

\* fs.stat: fails (ENOENT, ENOTDIR, EACCES, ELOOP) unless the path leads to
\* an entry
FsStat(fsys, s) ==
    LET real == RealPath(fsys, s)
    IN IF real.ok
         THEN [ok |-> TRUE, isDirectory |-> IsDir(fsys, real.c),
               size |-> ByteLength(fsys[real.c].data) + fsys[real.c].pad]
       ELSE [ok |-> FALSE, isDirectory |-> FALSE, size |-> 0]

\* fault: only directories count as existing
FsAccessDirectoriesOnly(fsys, s) == RealPath(fsys, s).ok /\ IsDir(fsys, RealPath(fsys, s).c)

\* fs.access: succeeds exactly when the path leads to an entry
FsAccess(fsys, s) == RealPath(fsys, s).ok

\* fault: the parents are made, the directory itself is not
FsMkdirParentsOnly(fsys, s) ==
    LET c       == Comps(s)
        missing == {SubSeq(c, 1, k) : k \in 1..(Len(c) - 1)} \ DOMAIN fsys
    IN IF \E k \in 1..Len(c) : IsFile(fsys, SubSeq(c, 1, k))
         THEN [ok |-> FALSE, fs |-> fsys]
       ELSE [ok |-> TRUE,
             fs |-> [q \in DOMAIN fsys \cup missing |->
                        IF q \in DOMAIN fsys THEN fsys[q] ELSE DirEntry]]

\* fault: mkdir without {recursive: true}, which needs the parent to exist
FsMkdirNotRecursive(fsys, s) ==
    LET c == Comps(s)
    IN IF Len(c) = 0 \/ Exists(fsys, c) \/ ~IsDir(fsys, Parent(c))
         THEN [ok |-> FALSE, fs |-> fsys]
       ELSE [ok |-> TRUE,
             fs |-> [q \in DOMAIN fsys \cup {c} |->
                        IF q = c THEN DirEntry ELSE fsys[q]]]

\* fs.mkdir(dir, {recursive: true}): fails when a name on the way is a file
\* or a locked directory, otherwise every missing directory down to dir is
\* created
FsMkdirP(fsys, s) ==
    LET c       == Comps(s)
        blocked == \/ \E k \in 1..Len(c) : IsFile(fsys, SubSeq(c, 1, k))
                   \/ ~Searchable(fsys, c)
        missing == {SubSeq(c, 1, k) : k \in 1..Len(c)} \ DOMAIN fsys
    IN IF blocked THEN [ok |-> FALSE, fs |-> fsys]
       ELSE [ok |-> TRUE,
             fs |-> [q \in DOMAIN fsys \cup missing |->
                        IF q \in DOMAIN fsys THEN fsys[q] ELSE DirEntry]]

\* fs.writeFile opens the path with flag 'w': fails on a directory (EISDIR),
\* on a trailing separator, when the parent is no directory (ENOENT, ENOTDIR)
\* and on a locked file or parent (EACCES); otherwise the file is created
\* empty, or truncated if it exists
FsOpenTrunc(fsys, s) ==
    LET c == Comps(s)
    IN IF \/ HasTrailingSep(s)
          \/ Len(c) = 0
          \/ IsDir(fsys, c)
          \/ ~IsDir(fsys, Parent(c))
          \/ ~Searchable(fsys, c)
          \/ (IsFile(fsys, c) /\ fsys[c].locked)
         THEN [ok |-> FALSE, fs |-> fsys]
       ELSE [ok |-> TRUE,
             fs |-> [q \in DOMAIN fsys \cup {c} |->
                        IF q = c THEN FileEntry(<<>>) ELSE fsys[q]]]

\* fs.writeFile then writes the encoded string from offset 0 of the file it
\* opened: what the file holds beyond the written length stays
FsWriteAt0(fsys, c, str) ==
    LET bytes == Utf8Encode(str)
        old   == fsys[c].data
        keep  == IF Len(old) > Len(bytes) THEN SubSeq(old, Len(bytes) + 1, Len(old))
                 ELSE <<>>
    IN [q \in DOMAIN fsys |->
           IF q = c THEN [fsys[c] EXCEPT !.data = bytes \o keep] ELSE fsys[q]]

\* fs.writeFile(path, content, 'utf8') when nothing runs between its open and
\* its write
FsWriteFile(fsys, s, str) ==
    LET opened == FsOpenTrunc(fsys, s)
    IN IF ~opened.ok THEN opened
       ELSE [ok |-> TRUE, fs |-> FsWriteAt0(opened.fs, Comps(s), str)]

\* fs.readFile(path, 'utf8'): fails unless the path names a file that is not
\* locked
FsReadFile(fsys, s) ==
    LET real == RealPath(fsys, s)
    IN IF real.ok /\ IsFile(fsys, real.c) /\ ~fsys[real.c].locked
         THEN [ok |-> TRUE, text |-> Utf8Decode(fsys[real.c].data)]
       ELSE [ok |-> FALSE, text |-> <<>>]

\* fault: a missing path is no error
FsUnlinkForce(fsys, s) ==
    LET c == Comps(s)
    IN IF IsDir(fsys, c) THEN [ok |-> FALSE, fs |-> fsys]
       ELSE [ok |-> TRUE, fs |-> [q \in DOMAIN fsys \ {c} |-> fsys[q]]]

\* fs.unlink: removes a file or a link; fails on a directory and on a
\* missing path
FsUnlink(fsys, s) ==
    LET c == Comps(s)
    IN IF Names(fsys, s) /\ ~IsDir(fsys, c)
         THEN [ok |-> TRUE, fs |-> [q \in DOMAIN fsys \ {c} |-> fsys[q]]]
       ELSE [ok |-> FALSE, fs |-> fsys]

\* fault: only the entry itself is removed, what lies below it stays
FsRmEntryOnly(fsys, s) ==
    LET c == Comps(s)
    IN IF Len(c) = 0 THEN [ok |-> FALSE, fs |-> fsys]
       ELSE [ok |-> TRUE, fs |-> [q \in DOMAIN fsys \ {c} |-> fsys[q]]]

\* fs.rm(path, {recursive: true, force: true}): removes the entry and all
\* below it; a missing path is no error, a path that cannot be reached and a
\* locked directory that is not empty are (EACCES)
FsRmRf(fsys, s) ==
    LET c      == Comps(s)
        gone   == {q \in DOMAIN fsys : IsPrefix(c, q)}
        denied == \/ ~Searchable(fsys, c)
                  \/ \E q \in gone : Len(q) > Len(c) /\ ~Searchable(fsys, q)
    IN IF Len(c) = 0 \/ denied THEN [ok |-> FALSE, fs |-> fsys]
       ELSE [ok |-> TRUE, fs |-> [q \in DOMAIN fsys \ gone |-> fsys[q]]]

\* what fs.rm may leave: when a locked directory that is not empty lies
\* below the path, the call fails after it has removed any of the entries
\* that are neither in such a directory nor on the way to one, each with
\* all below it
FsRmRfOutcomes(fsys, s) ==
    LET c       == Comps(s)
        gone    == {q \in DOMAIN fsys : IsPrefix(c, q)}
        full    == {q \in gone : /\ fsys[q].locked
                                 /\ \E x \in DOMAIN fsys : Len(x) > 0 /\ Parent(x) = q}
        kept    == {q \in gone : \E l \in full : IsPrefix(q, l) \/ IsPrefix(l, q)}
        partial == {S \in SUBSET (gone \ kept) :
                       \A q \in S : \A x \in gone : IsPrefix(q, x) => x \in S}
    IN IF Len(c) = 0 \/ ~Searchable(fsys, c) \/ full = {} THEN {FsRmRf(fsys, s)}
       ELSE {[ok |-> FALSE, fs |-> [q \in DOMAIN fsys \ S |-> fsys[q]]] : S \in partial}

\* fs.readdir succeeds on a path that leads to a directory that is not
\* locked
FsCanReaddir(fsys, s) ==
    LET real == RealPath(fsys, s)
    IN real.ok /\ IsDir(fsys, real.c) /\ ~fsys[real.c].locked

\* fs.readdir(dir, {withFileTypes: true}): the entries directly below the
\* directory the path leads to
FsReaddir(fsys, s) ==
    LET c == RealPath(fsys, s).c
    IN {q \in DOMAIN fsys : Len(q) = Len(c) + 1 /\ IsPrefix(c, q)}

\* fault: a link to a directory counts as a directory, as for fs.stat
DirentFollowsLinks(fsys, item) ==
    \/ fsys[item].kind = "dir"
    \/ /\ fsys[item].kind = "link"
       /\ LET real == ResolveFrom(fsys, <<>>, item, {}) IN real.ok /\ IsDir(fsys, real.c)

\* item.isDirectory() of an entry fs.readdir gave: the type of the entry
\* itself, a link being no directory
DirentIsDirectory(fsys, item) == fsys[item].kind = "dir"

---------------------------------------------------------------------------
(* Bounds and the inputs requests are drawn from *)

\* requests per run
MaxReq == 2

\* length of a content string
MaxContentLen == 1

Reqs == 1..MaxReq

\* WORKSPACE_PATH = path.join(__dirname, 'Workspace'), with __dirname = /s
WorkspacePath == <<"/", "s", "/", "w">>

WorkspaceRoot == Comps(WorkspacePath)

\* :projectName of the file and folder routes, URL-decoded: a project, and ".."
ProjectNames == {<<"p">>, DotDot}

\* :projectName of the tree route and :folderName: also ".", the workspace itself
FolderNames == ProjectNames \cup {Dot}

\* the path after /file/ or /folder/
FilePaths ==
    { <<>>,
      <<"f">>,
      <<"d">>,
      <<"n", "/", "m", "/", "f">>,
      <<"n", "/", ".", ".", "/", "f">>,
      <<".", ".", "/", "p", "q", "/", "f">>,
      <<".", ".", "/", ".", ".", "/", "j">> }

\* code units of a content string: "a", NUL, a lone high surrogate
ContentChars == {97, 0, 55296}

RECURSIVE StringsUpTo(_)
StringsUpTo(n) ==
    IF n = 0 THEN {<<>>}
    ELSE LET shorter == StringsUpTo(n - 1)
         IN shorter \cup {Append(t, c) : t \in shorter, c \in ContentChars}

JsString(v) == [type |-> "string", v |-> v]
JsUndefined == [type |-> "undefined", v |-> <<>>]
JsNumber == [type |-> "number", v |-> <<55>>]

\* req.body.content of a writeFile
Bodies == {JsString(v) : v \in StringsUpTo(MaxContentLen)} \cup {JsUndefined, JsNumber}

\* req.body.content of a createFile: absent, the string "a", a number
CreateBodies == {JsUndefined, JsString(<<97>>), JsNumber}

\* the disk when the server starts: /s holds the server (file j) and the
\* workspace w; w holds project p (file f, directory d with file g) and
\* project pq (file f)
InitialFs ==
    LET dirs  == { <<>>, << <<"s">> >>, << <<"s">>, <<"w">> >>,
                   << <<"s">>, <<"w">>, <<"p">> >>,
                   << <<"s">>, <<"w">>, <<"p">>, <<"d">> >>,
                   << <<"s">>, <<"w">>, <<"p", "q">> >> }
        files == { << <<"s">>, <<"j">> >>,
                   << <<"s">>, <<"w">>, <<"p">>, <<"f">> >>,
                   << <<"s">>, <<"w">>, <<"p">>, <<"d">>, <<"g">> >>,
                   << <<"s">>, <<"w">>, <<"p", "q">>, <<"f">> >> }
    IN [q \in dirs \cup files |-> IF q \in dirs THEN DirEntry ELSE FileEntry(<<97>>)]

\* the size limit of the read handler
MaxFileSize == 10 * 1024 * 1024

\* what file f of project p may hold when the server starts: texts around
\* the limits of the character ranges of the binary test
Texts ==
    {<<>>, <<97, 10>>, <<97, 0>>}
        \cup {<<c>> : c \in {0, 8, 9, 10, 11, 12, 13, 14, 31, 32, 97, 126, 127, 159, 160}}

\* fsys with entry e at path c
WithEntry(fsys, c, e) == [q \in DOMAIN fsys \cup {c} |-> IF q = c THEN e ELSE fsys[q]]

\* the disks the server may start on: the initial disk with file f holding
\* one of the texts, of a size at and above the limit, or locked; with
\* directory d locked; with directories of size 4096, as on ext4; with a
\* directory A and files a.txt, b.txt and b\c in project p
Disks ==
    LET p == << <<"s">>, <<"w">>, <<"p">> >>
        f == Append(p, <<"f">>)
        d == Append(p, <<"d">>)
        large(n) == [FileEntry(<<97>>) EXCEPT !.pad = n - 1]
        named == [c \in {Append(p, <<"A">>), Append(p, <<"a", ".", "t", "x", "t">>),
                         Append(p, <<"b", ".", "t", "x", "t">>),
                         Append(p, <<"b", "\\", "c">>)} |->
                     IF c = Append(p, <<"A">>) THEN DirEntry ELSE FileEntry(<<97>>)]
    IN {WithEntry(InitialFs, f, FileEntry(t)) : t \in Texts}
         \cup {WithEntry(InitialFs, f, large(n)) : n \in {MaxFileSize, MaxFileSize + 1}}
         \cup {WithEntry(InitialFs, f, [FileEntry(<<97>>) EXCEPT !.locked = TRUE])}
         \cup {WithEntry(InitialFs, d, [DirEntry EXCEPT !.locked = TRUE])}
         \cup {[q \in DOMAIN InitialFs |->
                   IF InitialFs[q].kind = "dir" THEN [DirEntry EXCEPT !.pad = 4096]
                   ELSE InitialFs[q]]}
         \cup {[q \in DOMAIN InitialFs \cup DOMAIN named |->
                   IF q \in DOMAIN named THEN named[q] ELSE InitialFs[q]]}

\* the disks with symbolic links in project p: link l to the project
\* directory itself, to itself, to a missing name, to file f and to
\* directory d; links l and k to each other; in directory d, link l to the
\* project directory and to a missing name
LinkDisks ==
    LET p == << <<"s">>, <<"w">>, <<"p">> >>
        d == Append(p, <<"d">>)
        P == <<"/", "s", "/", "w", "/", "p">>
    IN {WithEntry(InitialFs, Append(p, <<"l">>), LinkEntry(target)) :
            target \in {P, P \o <<"/", "l">>, P \o <<"/", "x">>, P \o <<"/", "f">>,
                        P \o <<"/", "d">>}}
         \cup {WithEntry(InitialFs, Append(d, <<"l">>), LinkEntry(target)) :
                  target \in {P, P \o <<"/", "x">>}}
         \cup {WithEntry(WithEntry(InitialFs, Append(p, <<"l">>), LinkEntry(P \o <<"/", "k">>)),
                         Append(p, <<"k">>), LinkEntry(P \o <<"/", "l">>))}

---------------------------------------------------------------------------
(* State *)

VARIABLES
    fs,     \* the disk
    req,    \* per request: its inputs, its locals and where it stands
    resp,   \* per request: the response sent, status 0 while there is none
    hist,   \* per request, history: whether the security check passed, the
            \* paths handed to filesystem calls, the requests answered before
            \* this one arrived
    page,   \* the landing page in the browser: the globals of app.js and its
            \* calls of loadFolders and createFolder under way
    bocIDE  \* the projects page in the browser: the BocIDE object, its calls
            \* under way and the notification it shows

vars == <<fs, req, resp, hist, page, bocIDE>>

NoStats == [isDirectory |-> FALSE, size |-> 0]

IdleReq ==
    [op |-> "none", projectName |-> <<>>, filePath |-> <<>>, content |-> JsUndefined,
     fullFilePath |-> <<>>, stats |-> NoStats, fd |-> "none", walk |-> <<>>,
     name |-> JsUndefined, sanitizedName |-> <<>>, subdirs |-> <<>>, pc |-> "idle"]

NoFile ==
    [name |-> <<>>, path |-> <<>>, extension |-> <<>>, size |-> 0,
     content |-> JsUndefined, isBinary |-> FALSE, type |-> ""]

NoResp ==
    [status |-> 0, file |-> NoFile, message |-> "", projectPath |-> <<>>, tree |-> <<>>]

NoHist == [checked |-> FALSE, touched |-> {}, after |-> {}]

JsNull == [type |-> "null", v |-> <<>>]

\* createFolder before any call of it; atOnce tells that the loadFolders it
\* called returned without fetching
NoCreate ==
    [pc |-> "none", calls |-> 0, folderName |-> <<>>, created |-> FALSE, folder |-> <<>>,
     atOnce |-> FALSE]

\* the landing page as its script leaves it: let folders = [], let isLoading =
\* false, nothing rendered, DOMContentLoaded not yet fired; hasErrorState
\* tells the variant of the script with showLoadingState and showErrorState
\* from the one without
InitialPage(hasErrorState) ==
    [hasErrorState |-> hasErrorState, loaded |-> FALSE, folders |-> {},
     isLoading |-> FALSE, retryButton |-> FALSE, loads |-> <<>>, create |-> NoCreate]

NoNotification == [shown |-> FALSE, project |-> <<>>, confirmed |-> <<>>]

\* new BocIDE(): projects = [], projectToDelete not set, nothing shown
NewBocIDE ==
    [ready |-> FALSE, projects |-> {}, cards |-> {}, retryButton |-> FALSE,
     projectToDelete |-> JsUndefined, deleteModal |-> FALSE, deletes |-> <<>>,
     loads |-> 0, notification |-> NoNotification]

Init ==
    /\ fs = InitialFs
    /\ req = [r \in Reqs |-> IdleReq]
    /\ resp = [r \in Reqs |-> NoResp]
    /\ hist = [r \in Reqs |-> NoHist]
    /\ page = InitialPage(TRUE)
    /\ bocIDE = NewBocIDE

Answered == {q \in Reqs : req[q].pc = "done"}

\* slot r takes the next request to arrive
Arrives(r) ==
    /\ req[r].pc = "idle"
    /\ \A q \in Reqs : q < r => req[q].pc # "idle"

\* one step of request r: its new locals, its response so far, whether the
\* security check passed in this step, the paths this step hands to fs calls
Step(r, others, newReq, newResp, passed, paths) ==
    /\ req' = [others EXCEPT ![r] = newReq]
    /\ resp' = [resp EXCEPT ![r] = newResp]
    /\ hist' = [hist EXCEPT ![r] =
                  [checked |-> @.checked \/ passed,
                   touched |-> @.touched \cup paths,
                   after   |-> IF req[r].pc = "idle" THEN Answered ELSE @.after]]
    /\ UNCHANGED <<page, bocIDE>>

Advance(r, newReq, newResp, passed, paths) == Step(r, req, newReq, newResp, passed, paths)

\* one step of request r that removes entries and leaves the disk as newFs:
\* a file another request holds open and whose name is gone lives on without
\* a name, out of reach of every later call
AdvanceRemoving(r, newReq, newResp, passed, paths, newFs) ==
    LET others == [q \in Reqs |->
                      IF req[q].fd = "open" /\ Comps(req[q].fullFilePath) \notin DOMAIN newFs
                        THEN [req[q] EXCEPT !.fd = "unlinked"]
                      ELSE req[q]]
    IN /\ Step(r, others, newReq, newResp, passed, paths)
       /\ fs' = newFs

Status(code) == [NoResp EXCEPT !.status = code]

Done(q) == [q EXCEPT !.pc = "done", !.fd = "none"]

\* fault: backslashes stay
KeepSeparators(s) == s

\* filePath.replace(/\\/g, '/')
NormalizeSeparators(s) == [i \in 1..Len(s) |-> IF s[i] = "\\" THEN "/" ELSE s[i]]

\* fault: a number passes for a string
isStringOrNumber(content) == content.type \in {"string", "number"}

\* typeof content === 'string'
isString(content) == content.type = "string"

\* the security check of the /:projectName/file/* and /folder/* handlers
resolvedPathInProject(fullFilePath, projectPath) ==
    StartsWith(PathResolve(fullFilePath), PathResolve(projectPath))

---------------------------------------------------------------------------
(* GET /:projectName/file/*  -  read a file *)

\* fault: a file of exactly the limit is refused
TooLargeFromLimit(size) == size >= MaxFileSize

\* stats.size > 10 * 1024 * 1024
TooLarge(size) == size > MaxFileSize

\* from the arrival to the answer of fs.stat
ReadFileStat(r) ==
    /\ Arrives(r)
    /\ \E projectName \in ProjectNames, filePath \in FilePaths :
         LET fullFilePath == PathJoin(<<WorkspacePath, projectName, filePath>>)
             projectPath  == PathJoin(<<WorkspacePath, projectName>>)
             stats        == FsStat(fs, fullFilePath)
             q == [IdleReq EXCEPT !.op = "readFile", !.projectName = projectName,
                                  !.filePath = filePath, !.fullFilePath = fullFilePath]
         IN IF ~resolvedPathInProject(fullFilePath, projectPath)
              THEN Advance(r, Done(q), Status(403), FALSE, {})
            ELSE IF ~stats.ok
              THEN Advance(r, Done(q), Status(404), TRUE, {Comps(fullFilePath)})
            ELSE IF stats.isDirectory
              THEN Advance(r, Done(q), Status(400), TRUE, {Comps(fullFilePath)})
            ELSE IF TooLarge(stats.size)
              THEN Advance(r, Done(q), Status(413), TRUE, {Comps(fullFilePath)})
            ELSE Advance(r, [q EXCEPT !.pc = "readFile",
                                      !.stats = [isDirectory |-> FALSE, size |-> stats.size]],
                         NoResp, TRUE, {Comps(fullFilePath)})
    /\ fs' = fs

\* fs.readFile, the binary test and the response
ReadFileRead(r) ==
    /\ req[r].pc = "readFile"
    /\ LET q        == req[r]
           read     == FsReadFile(fs, q.fullFilePath)
           isBinary == ~read.ok \/ nonPrintableRegexTest(read.text)
           file ==
             [name      |-> PathBasename(q.fullFilePath),
              path      |-> NormalizeSeparators(q.filePath),
              extension |-> PathExtname(q.fullFilePath),
              size      |-> q.stats.size,
              content   |-> IF isBinary THEN JsUndefined ELSE JsString(read.text),
              isBinary  |-> isBinary,
              type      |-> IF isBinary THEN "binary" ELSE "text"]
       IN Advance(r, Done(q), [Status(200) EXCEPT !.file = file],
                  FALSE, {Comps(q.fullFilePath)})
    /\ fs' = fs

---------------------------------------------------------------------------
(* PUT /:projectName/file/*  -  save a file *)

\* from the arrival to the answer of fs.mkdir
WriteFileMkdir(r) ==
    /\ Arrives(r)
    /\ \E projectName \in ProjectNames, filePath \in FilePaths, content \in Bodies :
         LET fullFilePath == PathJoin(<<WorkspacePath, projectName, filePath>>)
             projectPath  == PathJoin(<<WorkspacePath, projectName>>)
             dir          == PathDirname(fullFilePath)
             made         == FsMkdirP(fs, dir)
             q == [IdleReq EXCEPT !.op = "writeFile", !.projectName = projectName,
                                  !.filePath = filePath, !.content = content,
                                  !.fullFilePath = fullFilePath]
         IN IF ~resolvedPathInProject(fullFilePath, projectPath)
              THEN Advance(r, Done(q), Status(403), FALSE, {}) /\ fs' = fs
            ELSE IF ~isString(content)
              THEN Advance(r, Done(q), Status(400), TRUE, {}) /\ fs' = fs
            ELSE IF ~made.ok
              THEN Advance(r, Done(q), Status(500), TRUE, {Comps(dir)}) /\ fs' = fs
            ELSE Advance(r, [q EXCEPT !.pc = "writeFile"], NoResp, TRUE, {Comps(dir)})
                 /\ fs' = made.fs

\* fs.writeFile: the file is opened and truncated
WriteFileOpen(r) ==
    /\ req[r].pc = "writeFile"
    /\ req[r].op = "writeFile"
    /\ LET q      == req[r]
           opened == FsOpenTrunc(fs, q.fullFilePath)
       IN IF ~opened.ok
            THEN Advance(r, Done(q), Status(500), FALSE, {Comps(q.fullFilePath)}) /\ fs' = fs
          ELSE Advance(r, [q EXCEPT !.pc = "write", !.fd = "open"], NoResp, FALSE,
                       {Comps(q.fullFilePath)})
               /\ fs' = opened.fs

\* fs.writeFile: the content is written to the open file, and the file closed
WriteFileWrite(r) ==
    /\ req[r].pc = "write"
    /\ req[r].op = "writeFile"
    /\ LET q == req[r]
       IN /\ Advance(r, [q EXCEPT !.pc = "stat", !.fd = "none"], NoResp, FALSE, {})
          /\ fs' = IF q.fd = "open" THEN FsWriteAt0(fs, Comps(q.fullFilePath), q.content.v)
                   ELSE fs

\* fs.stat of the saved file and the response
WriteFileStat(r) ==
    /\ req[r].pc = "stat"
    /\ req[r].op = "writeFile"
    /\ LET q     == req[r]
           stats == FsStat(fs, q.fullFilePath)
           file  == [NoFile EXCEPT !.name = PathBasename(q.fullFilePath),
                                   !.path = NormalizeSeparators(q.filePath),
                                   !.size = stats.size]
       IN IF ~stats.ok
            THEN Advance(r, Done(q), Status(500), FALSE, {Comps(q.fullFilePath)})
          ELSE Advance(r, Done(q),
                       [Status(200) EXCEPT !.file = file, !.message = "File saved successfully"],
                       FALSE, {Comps(q.fullFilePath)})
    /\ fs' = fs

---------------------------------------------------------------------------
(* POST /:projectName/file/*  -  create a file *)

\* from the arrival to the answer of fs.access
CreateFileAccess(r) ==
    /\ Arrives(r)
    /\ \E projectName \in ProjectNames, filePath \in FilePaths, body \in CreateBodies :
         LET fullFilePath == PathJoin(<<WorkspacePath, projectName, filePath>>)
             projectPath  == PathJoin(<<WorkspacePath, projectName>>)
             \* const { content = '' } = req.body
             content      == IF body.type = "undefined" THEN JsString(<<>>) ELSE body
             q == [IdleReq EXCEPT !.op = "createFile", !.projectName = projectName,
                                  !.filePath = filePath, !.content = content,
                                  !.fullFilePath = fullFilePath]
         IN IF ~resolvedPathInProject(fullFilePath, projectPath)
              THEN Advance(r, Done(q), Status(403), FALSE, {})
            ELSE IF FsAccess(fs, fullFilePath)
              THEN Advance(r, Done(q), Status(409), TRUE, {Comps(fullFilePath)})
            ELSE Advance(r, [q EXCEPT !.pc = "mkdir"], NoResp, TRUE, {Comps(fullFilePath)})
    /\ fs' = fs

\* fs.mkdir of the parent directory
CreateFileMkdir(r) ==
    /\ req[r].pc = "mkdir"
    /\ req[r].op = "createFile"
    /\ LET q    == req[r]
           dir  == PathDirname(q.fullFilePath)
           made == FsMkdirP(fs, dir)
       IN IF ~made.ok
            THEN Advance(r, Done(q), Status(500), FALSE, {Comps(dir)}) /\ fs' = fs
          ELSE Advance(r, [q EXCEPT !.pc = "writeFile"], NoResp, FALSE, {Comps(dir)})
               /\ fs' = made.fs

\* fs.writeFile: the file is opened and truncated; content that is no string
\* is either refused by fs.writeFile or written as the string it converts to,
\* depending on the runtime
CreateFileOpen(r) ==
    /\ req[r].pc = "writeFile"
    /\ req[r].op = "createFile"
    /\ LET q      == req[r]
           opened == FsOpenTrunc(fs, q.fullFilePath)
       IN \/ /\ opened.ok
             /\ Advance(r, [q EXCEPT !.pc = "write", !.fd = "open"], NoResp, FALSE,
                        {Comps(q.fullFilePath)})
             /\ fs' = opened.fs
          \/ /\ ~opened.ok \/ q.content.type # "string"
             /\ Advance(r, Done(q), Status(500), FALSE, {Comps(q.fullFilePath)})
             /\ fs' = fs

\* fs.writeFile: the content is written to the open file, and the file closed
CreateFileWrite(r) ==
    /\ req[r].pc = "write"
    /\ req[r].op = "createFile"
    /\ LET q == req[r]
       IN /\ Advance(r, [q EXCEPT !.pc = "stat", !.fd = "none"], NoResp, FALSE, {})
          /\ fs' = IF q.fd = "open" THEN FsWriteAt0(fs, Comps(q.fullFilePath), q.content.v)
                   ELSE fs

\* fs.stat of the created file and the response
CreateFileStat(r) ==
    /\ req[r].pc = "stat"
    /\ req[r].op = "createFile"
    /\ LET q     == req[r]
           stats == FsStat(fs, q.fullFilePath)
           file  == [NoFile EXCEPT !.name = PathBasename(q.fullFilePath),
                                   !.path = NormalizeSeparators(q.filePath),
                                   !.size = stats.size,
                                   !.content = q.content]
       IN IF ~stats.ok
            THEN Advance(r, Done(q), Status(500), FALSE, {Comps(q.fullFilePath)})
          ELSE Advance(r, Done(q),
                       [Status(201) EXCEPT !.file = file, !.message = "File created successfully"],
                       FALSE, {Comps(q.fullFilePath)})
    /\ fs' = fs

---------------------------------------------------------------------------
(* DELETE /:projectName/file/*  -  delete a file or a directory *)

\* from the arrival to the answer of fs.stat
DeleteEntryStat(r) ==
    /\ Arrives(r)
    /\ \E projectName \in ProjectNames, filePath \in FilePaths :
         LET fullFilePath == PathJoin(<<WorkspacePath, projectName, filePath>>)
             projectPath  == PathJoin(<<WorkspacePath, projectName>>)
             stats        == FsStat(fs, fullFilePath)
             q == [IdleReq EXCEPT !.op = "deleteEntry", !.projectName = projectName,
                                  !.filePath = filePath, !.fullFilePath = fullFilePath]
         IN IF ~resolvedPathInProject(fullFilePath, projectPath)
              THEN Advance(r, Done(q), Status(403), FALSE, {})
            ELSE IF ~stats.ok
              THEN Advance(r, Done(q), Status(404), TRUE, {Comps(fullFilePath)})
            ELSE Advance(r, [q EXCEPT !.pc = "remove",
                                      !.stats = [isDirectory |-> stats.isDirectory,
                                                 size |-> stats.size]],
                         NoResp, TRUE, {Comps(fullFilePath)})
    /\ fs' = fs

\* fs.rm of a directory or fs.unlink of a file, and the response
DeleteEntryRemove(r) ==
    /\ req[r].pc = "remove"
    /\ req[r].op = "deleteEntry"
    /\ LET q        == req[r]
           outcomes == IF q.stats.isDirectory THEN FsRmRfOutcomes(fs, q.fullFilePath)
                       ELSE {FsUnlink(fs, q.fullFilePath)}
           message  == IF q.stats.isDirectory THEN "Directory deleted successfully"
                       ELSE "File deleted successfully"
       IN \E removed \in outcomes :
             AdvanceRemoving(r, Done(q),
                             IF removed.ok THEN [Status(200) EXCEPT !.message = message]
                             ELSE Status(404),
                             FALSE, {Comps(q.fullFilePath)}, removed.fs)

---------------------------------------------------------------------------
(* POST /:projectName/folder/*  -  create a folder *)

\* from the arrival to the answer of fs.access
CreateFolderAccess(r) ==
    /\ Arrives(r)
    /\ \E projectName \in ProjectNames, folderPath \in FilePaths :
         LET fullFolderPath == PathJoin(<<WorkspacePath, projectName, folderPath>>)
             projectPath    == PathJoin(<<WorkspacePath, projectName>>)
             q == [IdleReq EXCEPT !.op = "createFolder", !.projectName = projectName,
                                  !.filePath = folderPath, !.fullFilePath = fullFolderPath]
         IN IF ~resolvedPathInProject(fullFolderPath, projectPath)
              THEN Advance(r, Done(q), Status(403), FALSE, {})
            ELSE IF FsAccess(fs, fullFolderPath)
              THEN Advance(r, Done(q), Status(409), TRUE, {Comps(fullFolderPath)})
            ELSE Advance(r, [q EXCEPT !.pc = "mkdir"], NoResp, TRUE, {Comps(fullFolderPath)})
    /\ fs' = fs

\* fs.mkdir of the folder
CreateFolderMkdir(r) ==
    /\ req[r].pc = "mkdir"
    /\ req[r].op = "createFolder"
    /\ LET q    == req[r]
           made == FsMkdirP(fs, q.fullFilePath)
       IN IF ~made.ok
            THEN Advance(r, Done(q), Status(500), FALSE, {Comps(q.fullFilePath)}) /\ fs' = fs
          ELSE Advance(r, [q EXCEPT !.pc = "stat"], NoResp, FALSE, {Comps(q.fullFilePath)})
               /\ fs' = made.fs

\* fs.stat of the folder and the response
CreateFolderStat(r) ==
    /\ req[r].pc = "stat"
    /\ req[r].op = "createFolder"
    /\ LET q      == req[r]
           stats  == FsStat(fs, q.fullFilePath)
           folder == [NoFile EXCEPT !.name = PathBasename(q.fullFilePath),
                                    !.path = NormalizeSeparators(q.filePath)]
       IN IF ~stats.ok
            THEN Advance(r, Done(q), Status(500), FALSE, {Comps(q.fullFilePath)})
          ELSE Advance(r, Done(q),
                       [Status(201) EXCEPT !.file = folder,
                                           !.message = "Folder created successfully"],
                       FALSE, {Comps(q.fullFilePath)})
    /\ fs' = fs

---------------------------------------------------------------------------
(* getFileTree *)

\* a.name.localeCompare(b.name) < 0, for names over "-", ".", "\" and
\* letters, in the root collation: punctuation sorts before letters, letters
\* alphabetically, and of two names that differ in case only the one with
\* the first lower-case letter comes first
Collation == <<"-", ".", "\\", "a", "b", "c", "d", "e", "f", "g", "h", "i", "j", "k", "l",
               "m", "n", "o", "p", "q", "r", "s", "t", "u", "v", "w", "x", "y", "z">>

UpperCase == <<"A", "B", "C", "D", "E", "F", "G", "H", "I", "J", "K", "L", "M",
               "N", "O", "P", "Q", "R", "S", "T", "U", "V", "W", "X", "Y", "Z">>

IsUpper(ch) == \E k \in 1..Len(UpperCase) : UpperCase[k] = ch

\* the letter without its case
Fold(ch) ==
    IF IsUpper(ch)
      THEN Collation[3 + (CHOOSE k \in 1..Len(UpperCase) : UpperCase[k] = ch)]
    ELSE ch

Rank(ch) == CHOOSE k \in 1..Len(Collation) : Collation[k] = Fold(ch)

\* the comparison of the letters, case set aside
RECURSIVE PrimaryLess(_, _)
PrimaryLess(a, b) ==
    IF Len(b) = 0 THEN FALSE
    ELSE IF Len(a) = 0 THEN TRUE
    ELSE IF Rank(Head(a)) # Rank(Head(b)) THEN Rank(Head(a)) < Rank(Head(b))
    ELSE PrimaryLess(Tail(a), Tail(b))

\* the comparison of the case, for names with the same letters
RECURSIVE CaseLess(_, _)
CaseLess(a, b) ==
    IF Len(a) = 0 \/ Len(b) = 0 THEN FALSE
    ELSE IF Head(a) # Head(b) THEN IsUpper(Head(b))
    ELSE CaseLess(Tail(a), Tail(b))

localeCompareLess(a, b) ==
    \/ PrimaryLess(a, b)
    \/ ~PrimaryLess(b, a) /\ CaseLess(a, b)

\* fault: the comparator looks at the names only
NodeBeforeByName(a, b) == localeCompareLess(a.name, b.name)

\* the comparator of tree.sort: directories first, then by name
NodeBefore(a, b) ==
    IF a.isDirectory /\ ~b.isDirectory THEN TRUE
    ELSE IF ~a.isDirectory /\ b.isDirectory THEN FALSE
    ELSE localeCompareLess(a.name, b.name)

\* Array.prototype.sort of a set of nodes with distinct names
RECURSIVE SortNodes(_)
SortNodes(nodes) ==
    IF nodes = {} THEN <<>>
    ELSE LET first == CHOOSE a \in nodes : \A b \in nodes \ {a} : NodeBefore(a, b)
         IN <<first>> \o SortNodes(nodes \ {first})

\* the node getFileTree builds for a directory entry, before its children
TreeNode(name, relativePath, isDirectory, size) ==
    [name        |-> name,
     path        |-> relativePath,
     isDirectory |-> isDirectory,
     size        |-> size,
     extension   |-> IF isDirectory THEN <<"null">> ELSE PathExtname(name),
     hasChildren |-> isDirectory,
     children    |-> <<>>]

NoNode == TreeNode(<<>>, <<>>, FALSE, 0)

\* getFileTree(dirPath, basePath) when nothing runs between its calls: one
\* node per entry of the directory, the children of a directory built
\* recursively; [] when the directory cannot be read
RECURSIVE getFileTree(_, _, _)
getFileTree(fsys, dirPath, basePath) ==
    IF ~FsCanReaddir(fsys, dirPath) THEN <<>>
    ELSE LET node(item) ==
               LET name         == item[Len(item)]
                   itemPath     == PathJoin(<<dirPath, name>>)
                   relativePath == NormalizeSeparators(PathJoin(<<basePath, name>>))
                   isDirectory  == DirentIsDirectory(fsys, item)
               IN [TreeNode(name, relativePath, isDirectory, FsStat(fsys, itemPath).size)
                     EXCEPT !.children = IF isDirectory
                                           THEN getFileTree(fsys, itemPath, relativePath)
                                         ELSE <<>>]
         IN SortNodes({node(item) : item \in FsReaddir(fsys, dirPath)})

\* a call of getFileTree in progress: the entries fs.readdir gave and that
\* the loop has yet to visit, the nodes pushed so far, the node whose
\* children a recursive call is building
Frame(dirPath, basePath) ==
    [dirPath |-> dirPath, basePath |-> basePath, listed |-> FALSE,
     items |-> {}, tree |-> {}, node |-> NoNode]

\* a call of getFileTree returns value to the calls below it on the stack:
\* the caller pushes its node and, with no entry left, sorts and returns too
RECURSIVE WalkReturn(_, _)
WalkReturn(stack, value) ==
    IF Len(stack) = 0 THEN [done |-> TRUE, stack |-> <<>>, tree |-> value]
    ELSE LET top   == stack[Len(stack)]
             below == SubSeq(stack, 1, Len(stack) - 1)
             tree  == top.tree \cup {[top.node EXCEPT !.children = value]}
         IN IF top.items = {} THEN WalkReturn(below, SortNodes(tree))
            ELSE [done  |-> FALSE,
                  stack |-> Append(below, [top EXCEPT !.tree = tree, !.node = NoNode]),
                  tree  |-> <<>>]

---------------------------------------------------------------------------
(* GET /:projectName  -  project information and file tree *)

\* from the arrival to the answer of fs.stat
GetProjectStat(r) ==
    /\ Arrives(r)
    /\ \E projectName \in FolderNames :
         LET projectPath == PathJoin(<<WorkspacePath, projectName>>)
             stats       == FsStat(fs, projectPath)
             q == [IdleReq EXCEPT !.op = "getProject", !.projectName = projectName,
                                  !.fullFilePath = projectPath]
         IN IF ~stats.ok \/ ~stats.isDirectory
              THEN Advance(r, Done(q), Status(404), FALSE, {Comps(projectPath)})
            ELSE Advance(r, [q EXCEPT !.pc = "tree", !.walk = <<Frame(projectPath, <<>>)>>],
                         NoResp, FALSE, {Comps(projectPath)})
    /\ fs' = fs

\* request r goes on with the walk left as walked, and answers when the
\* outermost getFileTree has returned
GetProjectWalked(r, walked, paths) ==
    LET q == req[r]
    IN IF walked.done
         THEN Advance(r, Done([q EXCEPT !.walk = <<>>]),
                      [Status(200) EXCEPT !.projectPath = q.fullFilePath,
                                          !.tree = walked.tree],
                      FALSE, paths)
       ELSE Advance(r, [q EXCEPT !.walk = walked.stack], NoResp, FALSE, paths)

\* fault: the catch block returns the nodes collected so far
CatchReturnsCollected(tree) == SortNodes(tree)

\* getFileTree: what the catch block returns when the call had collected the
\* nodes of tree
CatchReturn(tree) == <<>>

\* getFileTree: the answer of fs.readdir; a failure is caught and the call
\* returns []
GetProjectReaddir(r) ==
    /\ req[r].pc = "tree"
    /\ ~req[r].walk[Len(req[r].walk)].listed
    /\ LET stack == req[r].walk
           top   == stack[Len(stack)]
           below == SubSeq(stack, 1, Len(stack) - 1)
           items == {[name        |-> item[Len(item)],
                      isDirectory |-> DirentIsDirectory(fs, item)] :
                        item \in FsReaddir(fs, top.dirPath)}
           walked == IF ~FsCanReaddir(fs, top.dirPath)
                       THEN WalkReturn(below, CatchReturn(top.tree))
                     ELSE IF items = {}
                       THEN WalkReturn(below, <<>>)
                     ELSE [done  |-> FALSE,
                           stack |-> Append(below, [top EXCEPT !.listed = TRUE,
                                                               !.items = items]),
                           tree  |-> <<>>]
       IN GetProjectWalked(r, walked, {Comps(top.dirPath)})
    /\ fs' = fs

\* getFileTree: the answer of fs.stat for one entry of the loop; a failure
\* is caught and the call returns []; a directory starts a recursive call
GetProjectStatItem(r) ==
    /\ req[r].pc = "tree"
    /\ req[r].walk[Len(req[r].walk)].listed
    /\ \E item \in req[r].walk[Len(req[r].walk)].items :
         LET stack        == req[r].walk
             top          == stack[Len(stack)]
             below        == SubSeq(stack, 1, Len(stack) - 1)
             itemPath     == PathJoin(<<top.dirPath, item.name>>)
             relativePath == NormalizeSeparators(PathJoin(<<top.basePath, item.name>>))
             stats        == FsStat(fs, itemPath)
             node         == TreeNode(item.name, relativePath, item.isDirectory, stats.size)
             rest         == top.items \ {item}
             walked ==
               IF ~stats.ok THEN WalkReturn(below, CatchReturn(top.tree))
               ELSE IF item.isDirectory
                 THEN [done  |-> FALSE,
                       stack |-> below \o <<[top EXCEPT !.items = rest, !.node = node],
                                             Frame(itemPath, relativePath)>>,
                       tree  |-> <<>>]
               ELSE IF rest = {}
                 THEN WalkReturn(below, SortNodes(top.tree \cup {node}))
               ELSE [done  |-> FALSE,
                     stack |-> Append(below, [top EXCEPT !.items = rest,
                                                         !.tree = top.tree \cup {node}]),
                     tree  |-> <<>>]
         IN GetProjectWalked(r, walked, {Comps(itemPath)})
    /\ fs' = fs

---------------------------------------------------------------------------
(* DELETE /api/folders/:folderName  -  delete a top-level folder *)

\* from the arrival to the answer of fs.stat
DeleteFolderStat(r) ==
    /\ Arrives(r)
    /\ \E folderName \in FolderNames :
         LET folderPath == PathJoin(<<WorkspacePath, folderName>>)
             stats      == FsStat(fs, folderPath)
             q == [IdleReq EXCEPT !.op = "deleteFolder", !.projectName = folderName,
                                  !.fullFilePath = folderPath]
         IN IF ~stats.ok
              THEN Advance(r, Done(q), Status(404), FALSE, {Comps(folderPath)})
            ELSE IF ~stats.isDirectory
              THEN Advance(r, Done(q), Status(400), FALSE, {Comps(folderPath)})
            ELSE Advance(r, [q EXCEPT !.pc = "rm"], NoResp, FALSE, {Comps(folderPath)})
    /\ fs' = fs

\* fs.rm of the folder and the response
DeleteFolderRm(r) ==
    /\ req[r].pc = "rm"
    /\ LET q == req[r]
       IN \E removed \in FsRmRfOutcomes(fs, q.fullFilePath) :
             AdvanceRemoving(r, Done(q), Status(IF removed.ok THEN 200 ELSE 500), FALSE,
                             {Comps(q.fullFilePath)}, removed.fs)

---------------------------------------------------------------------------
(* Folder names: sanitizeFolderName and validateFolderName.  A name is a  *)
(* sequence of characters; "U+0130" stands for the capital I with a dot   *)
(* above and "U+0307" for the combining dot above.                        *)

\* the characters /[<>:"/\\|?*]/ matches
InvalidCharacters == {"<", ">", ":", "\"", "/", "\\", "|", "?", "*"}

\* the characters \s matches, and trim() strips
WhiteSpace == {" ", "\t", "\n"}

LowerCase == <<"a", "b", "c", "d", "e", "f", "g", "h", "i", "j", "k", "l", "m",
               "n", "o", "p", "q", "r", "s", "t", "u", "v", "w", "x", "y", "z">>

\* fault: only the first invalid character is removed (no g flag)
RECURSIVE RemoveFirstInvalid(_)
RemoveFirstInvalid(name) ==
    IF Len(name) = 0 THEN <<>>
    ELSE IF Head(name) \in InvalidCharacters THEN Tail(name)
    ELSE <<Head(name)>> \o RemoveFirstInvalid(Tail(name))

\* name.replace(/[<>:"/\\|?*]/g, '')
RemoveInvalid(name) == SelectSeq(name, LAMBDA ch : ch \notin InvalidCharacters)

\* name.replace(/\s+/g, '-')
RECURSIVE ReplaceWhiteSpace(_)
ReplaceWhiteSpace(name) ==
    IF Len(name) = 0 THEN <<>>
    ELSE IF Head(name) \notin WhiteSpace
      THEN <<Head(name)>> \o ReplaceWhiteSpace(Tail(name))
    ELSE IF Len(name) > 1 /\ name[2] \in WhiteSpace
      THEN ReplaceWhiteSpace(Tail(name))
    ELSE <<"-">> \o ReplaceWhiteSpace(Tail(name))

\* name.toLowerCase(): the capital I with a dot above becomes two characters
RECURSIVE toLowerCase(_)
toLowerCase(name) ==
    IF Len(name) = 0 THEN <<>>
    ELSE LET ch == Head(name)
             lower == IF IsUpper(ch)
                        THEN <<LowerCase[CHOOSE k \in 1..Len(UpperCase) : UpperCase[k] = ch]>>
                      ELSE IF ch = "U+0130" THEN <<"i", "U+0307">>
                      ELSE <<ch>>
         IN lower \o toLowerCase(Tail(name))

\* name.trim()
RECURSIVE trim(_)
trim(name) ==
    IF Len(name) = 0 THEN <<>>
    ELSE IF Head(name) \in WhiteSpace THEN trim(Tail(name))
    ELSE IF name[Len(name)] \in WhiteSpace THEN trim(SubSeq(name, 1, Len(name) - 1))
    ELSE name

sanitizeFolderName(name) == trim(toLowerCase(ReplaceWhiteSpace(RemoveInvalid(name))))

\* sanitized.length > 50
MaxFolderNameLength == 50

\* fault: a name of exactly the maximum length is refused
TooLongFromMax(sanitized) == Len(sanitized) >= MaxFolderNameLength

TooLong(sanitized) == Len(sanitized) > MaxFolderNameLength

reserved ==
    {<<"c", "o", "n">>, <<"p", "r", "n">>, <<"a", "u", "x">>, <<"n", "u", "l">>}
        \cup {<<"c", "o", "m", d>> : d \in {"1", "2", "3", "4", "5", "6", "7", "8", "9"}}
        \cup {<<"l", "p", "t", d>> : d \in {"1", "2", "3", "4", "5", "6", "7", "8", "9"}}

\* validateFolderName(name): the sanitized name when the name is valid
validateFolderName(name) ==
    IF name.type # "string" \/ Len(name.v) = 0
      THEN [valid |-> FALSE, sanitized |-> <<>>]
    ELSE LET sanitized == sanitizeFolderName(name.v)
         IN IF Len(sanitized) = 0 THEN [valid |-> FALSE, sanitized |-> sanitized]
            ELSE IF TooLong(sanitized) THEN [valid |-> FALSE, sanitized |-> sanitized]
            ELSE IF toLowerCase(sanitized) \in reserved
              THEN [valid |-> FALSE, sanitized |-> sanitized]
            ELSE [valid |-> TRUE, sanitized |-> sanitized]


---------------------------------------------------------------------------
(* POST /api/folders  -  create a top-level folder, in one variant of the *)
(* router with the directories of a Python project in it                  *)

\* n times the character ch
Repeat(ch, n) == [i \in 1..n |-> ch]

\* req.body.name: absent, the number 55, a string
SubmittedNames ==
    {JsUndefined, [type |-> "number", v |-> <<"5", "5">>], JsString(<<>>)}
        \cup {JsString(v) : v \in
               { <<"M", "y", " ", "P", "r", "o", "j", "e", "c", "t", "!", "!">>,
                 <<"c", "o", "n">>, <<"C", "O", "N">>, <<"C", "o", "m", "1">>,
                 <<"l", "p", "t", "9">>, <<"c", "o", "n", ".">>,
                 <<" ">>, <<"/">>, <<"a", " ", "\t", "b">>, <<" ", "a", " ">>,
                 <<".">>, <<".", ".">>, <<".", ".", "/", "x">>, <<"a", "\\", "b">>,
                 <<"<", "a", ">">>,
                 <<"p">>, <<"P">>, <<"n">>,
                 Repeat("a", MaxFolderNameLength),
                 Repeat("a", MaxFolderNameLength + 1),
                 Append(Repeat("A", MaxFolderNameLength), "/"),
                 Repeat("U+0130", 25), Repeat("U+0130", 26) }}

\* the two variants of the router: without and with the project structure
FolderOps == {"createTopFolder", "createPythonProject"}

\* const subdirs = ['data', 'logs', 'test', 'src']
PythonProjectSubdirs ==
    << <<"d", "a", "t", "a">>, <<"l", "o", "g", "s">>, <<"t", "e", "s", "t">>,
       <<"s", "r", "c">> >>

\* from the arrival to the answer of fs.access: the name is validated first;
\* one server runs one variant of the router
PostFolderAccess(r) ==
    /\ Arrives(r)
    /\ \E name \in SubmittedNames, op \in FolderOps :
         LET validation    == validateFolderName(name)
             sanitizedName == validation.sanitized
             folderPath    == PathJoin(<<WorkspacePath, sanitizedName>>)
             q == [IdleReq EXCEPT !.op = op, !.name = name,
                                  !.sanitizedName = sanitizedName]
         IN /\ \A other \in Reqs : req[other].op \in FolderOps => req[other].op = op
            /\ IF ~validation.valid
                 THEN Advance(r, Done(q), Status(400), FALSE, {})
               ELSE IF FsAccess(fs, folderPath)
                 THEN Advance(r, Done([q EXCEPT !.fullFilePath = folderPath]), Status(409),
                              FALSE, {Comps(folderPath)})
               ELSE Advance(r, [q EXCEPT !.fullFilePath = folderPath, !.pc = "mkdir"],
                            NoResp, FALSE, {Comps(folderPath)})
    /\ fs' = fs

\* fs.mkdir of the folder
PostFolderMkdir(r) ==
    /\ req[r].pc = "mkdir"
    /\ req[r].op \in FolderOps
    /\ LET q    == req[r]
           made == FsMkdirP(fs, q.fullFilePath)
       IN IF ~made.ok
            THEN Advance(r, Done(q), Status(500), FALSE, {Comps(q.fullFilePath)}) /\ fs' = fs
          ELSE IF q.op = "createPythonProject"
            THEN Advance(r, [q EXCEPT !.pc = "subdir", !.subdirs = PythonProjectSubdirs],
                         NoResp, FALSE, {Comps(q.fullFilePath)})
                 /\ fs' = made.fs
          ELSE Advance(r, [q EXCEPT !.pc = "stat"], NoResp, FALSE, {Comps(q.fullFilePath)})
               /\ fs' = made.fs

\* createPythonProjectStructure: fs.mkdir of the next subdirectory
PostFolderSubdir(r) ==
    /\ req[r].pc = "subdir"
    /\ LET q       == req[r]
           subdir  == PathJoin(<<q.fullFilePath, Head(q.subdirs)>>)
           made    == FsMkdirP(fs, subdir)
           rest    == Tail(q.subdirs)
       IN IF ~made.ok
            THEN Advance(r, Done(q), Status(500), FALSE, {Comps(subdir)}) /\ fs' = fs
          ELSE Advance(r, [q EXCEPT !.subdirs = rest,
                                    !.pc = IF Len(rest) = 0 THEN "stat" ELSE "subdir"],
                       NoResp, FALSE, {Comps(subdir)})
               /\ fs' = made.fs

\* fs.stat of the folder and the response
PostFolderStat(r) ==
    /\ req[r].pc = "stat"
    /\ req[r].op \in FolderOps
    /\ LET q      == req[r]
           stats  == FsStat(fs, q.fullFilePath)
           folder == [NoFile EXCEPT !.name = q.sanitizedName, !.path = q.fullFilePath,
                                    !.size = stats.size]
       IN IF ~stats.ok
            THEN Advance(r, Done(q), Status(500), FALSE, {Comps(q.fullFilePath)})
          ELSE Advance(r, Done(q), [Status(201) EXCEPT !.file = folder], FALSE,
                       {Comps(q.fullFilePath)})
    /\ fs' = fs


---------------------------------------------------------------------------
(* The landing page (app.js): it loads the list of folders and creates    *)
(* folders.  A call of an async function is under way from its first      *)
(* await on; every action is one turn of the browser's event loop         *)

\* what the user types into the folder name field
TypedNames ==
    { <<"n">>, <<" ", "n", " ">>, <<"p">>, <<" ">>,
      <<"M", "y", " ", "P", "r", "o", "j", "e", "c", "t", "!", "!">> }

\* calls of loadFolders the model lets be under way together
MaxLoads == 2

NoData == [success |-> FALSE, folders |-> {}]

\* a step of the page: the server's state is left alone
PageStep(newPage) ==
    /\ page' = newPage
    /\ UNCHANGED <<fs, req, resp, hist, bocIDE>>

\* loadFolders: the call until its first await; awaited tells that
\* createFolder awaits the call
LoadFoldersCall(p, awaited) ==
    IF p.isLoading THEN p
    ELSE [p EXCEPT !.isLoading = TRUE,
                   !.retryButton = FALSE,
                   !.loads = Append(@, [pc |-> "fetch", data |-> NoData,
                                        awaited |-> awaited])]

\* fault: the flag is left as it is
FinallyKeepsLoading(p) == p

\* loadFolders: finally { isLoading = false; }
Finally(p) == [p EXCEPT !.isLoading = FALSE]

RemoveAt(seq, k) == SubSeq(seq, 1, k - 1) \o SubSeq(seq, k + 1, Len(seq))

\* loadFolders: call k goes on after its awaits, with the answer data or
\* with the fetch rejected, and returns; createFolder goes on when it
\* awaited the call
LoadFoldersReturns(p, k, fetched, data) ==
    LET shown == IF fetched /\ data.success
                   THEN [p EXCEPT !.folders = data.folders, !.retryButton = FALSE]
                 ELSE [p EXCEPT !.retryButton = p.hasErrorState]
        ended == [Finally(shown) EXCEPT !.loads = RemoveAt(@, k)]
    IN IF p.loads[k].awaited THEN [ended EXCEPT !.create.pc = "done"] ELSE ended

\* document.addEventListener('DOMContentLoaded', ...): the first loadFolders
DOMContentLoaded ==
    /\ ~page.loaded
    /\ PageStep([LoadFoldersCall(page, FALSE) EXCEPT !.loaded = TRUE])

\* the F5 shortcut
PressF5 ==
    /\ page.loaded
    /\ Len(page.loads) < MaxLoads
    /\ PageStep(LoadFoldersCall(page, FALSE))

\* the button of showErrorState
ClickRetry ==
    /\ page.retryButton
    /\ Len(page.loads) < MaxLoads
    /\ PageStep(LoadFoldersCall(page, FALSE))

\* GET /api/folders answers the fetch of call k: the directories fs.readdir
\* finds in the workspace, or success false when it fails
GetFolders(k) ==
    /\ k \in 1..Len(page.loads)
    /\ page.loads[k].pc = "fetch"
    /\ LET items == {item \in FsReaddir(fs, WorkspacePath) : DirentIsDirectory(fs, item)}
           data  == IF FsCanReaddir(fs, WorkspacePath)
                      THEN [success |-> TRUE,
                            folders |-> {item[Len(item)] : item \in items}]
                    ELSE NoData
       IN PageStep([page EXCEPT !.loads[k] = [@ EXCEPT !.pc = "answered", !.data = data]])

\* loadFolders: the fetch and response.json() of call k have resolved
LoadFoldersResume(k) ==
    /\ k \in 1..Len(page.loads)
    /\ page.loads[k].pc = "answered"
    /\ PageStep(LoadFoldersReturns(page, k, TRUE, page.loads[k].data))

\* loadFolders: the fetch or response.json() of call k is rejected
LoadFoldersFetchFails(k) ==
    /\ k \in 1..Len(page.loads)
    /\ PageStep(LoadFoldersReturns(page, k, FALSE, NoData))

\* createFolder: the form is submitted and the POST is sent; the form is
\* disabled until the call ends
CreateFolderSubmit ==
    /\ page.loaded
    /\ page.create.pc \in {"none", "done"}
    /\ page.create.calls < MaxReq
    /\ \E typed \in TypedNames :
         LET folderName == trim(typed)
         IN IF Len(folderName) = 0 THEN PageStep(page)
            ELSE PageStep([page EXCEPT !.create =
                             [NoCreate EXCEPT !.pc = "post", !.calls = page.create.calls + 1,
                                              !.folderName = folderName]])

\* the requests POST /api/folders has got
FolderPosts == {q \in Reqs : req[q].op \in FolderOps}

\* the POST of createFolder arrives at the server
CreateFolderPostArrives(r) ==
    /\ page.create.pc = "post"
    /\ Cardinality(FolderPosts) < page.create.calls
    /\ PostFolderAccess(r)
    /\ req'[r].name = JsString(page.create.folderName)

\* the POST of the createFolder call under way has been answered
CreateFolderAnswered ==
    /\ page.create.pc = "post"
    /\ Cardinality(FolderPosts) = page.create.calls
    /\ \A q \in FolderPosts : req[q].pc = "done"

\* createFolder: the fetch and response.json() have resolved; on success
\* the call awaits loadFolders, which may return at once
CreateFolderResume ==
    /\ CreateFolderAnswered
    /\ LET q       == CHOOSE last \in FolderPosts : \A other \in FolderPosts : other <= last
           success == resp[q].status = 201
           create  == [page.create EXCEPT !.created = success, !.folder = resp[q].file.name]
           called  == LoadFoldersCall(page, TRUE)
       IN IF ~success \/ called = page
            THEN PageStep([page EXCEPT !.create = [create EXCEPT !.pc = "done",
                                                                 !.atOnce = success]])
          ELSE /\ Len(page.loads) < MaxLoads
               /\ PageStep([called EXCEPT !.create = [create EXCEPT !.pc = "load"]])

\* createFolder: the fetch or response.json() is rejected
CreateFolderFetchFails ==
    /\ CreateFolderAnswered
    /\ PageStep([page EXCEPT !.create.pc = "done"])


---------------------------------------------------------------------------
(* The projects page (app.js, class BocIDE): projects are listed and      *)
(* deleted through a modal.  The server behind this page is not part of   *)
(* the sources: its answers are inputs                                    *)

\* the projects the server may list
ListedProjects == {<<"p">>, <<"n">>}

\* calls of confirmDelete the model lets be under way together
MaxDeletes == 2

\* a step of the projects page
BocIDEStep(newBocIDE) ==
    /\ bocIDE' = newBocIDE
    /\ UNCHANGED <<fs, req, resp, hist, page>>

\* `${value}` in a template literal
TemplateString(value) ==
    IF value.type = "null" THEN <<"n", "u", "l", "l">>
    ELSE IF value.type = "undefined" THEN <<"u", "n", "d", "e", "f", "i", "n", "e", "d">>
    ELSE value.v

\* !value
Falsy(value) == value.type \in {"null", "undefined"} \/ value.v = <<>>

showDeleteModal(b, projectName) ==
    [b EXCEPT !.projectToDelete = JsString(projectName), !.deleteModal = TRUE]

hideDeleteModal(b) == [b EXCEPT !.deleteModal = FALSE, !.projectToDelete = JsNull]

\* loadProjects until its first await: the container shows "Loading projects..."
loadProjects(b) == [b EXCEPT !.cards = {}, !.retryButton = FALSE, !.loads = @ + 1]

\* showSuccess(`Project "${project}" deleted successfully!`); confirmed is
\* the folder_path the call had sent
showSuccess(b, project, confirmed) ==
    [b EXCEPT !.notification = [shown |-> TRUE, project |-> project,
                                confirmed |-> confirmed]]

\* init: bindEvents and the first loadProjects
BocIDEInit ==
    /\ ~bocIDE.ready
    /\ BocIDEStep(loadProjects([bocIDE EXCEPT !.ready = TRUE]))

\* loadProjects: the list has arrived and is rendered
LoadProjectsResume ==
    /\ bocIDE.loads > 0
    /\ \E contents \in SUBSET ListedProjects :
          BocIDEStep([bocIDE EXCEPT !.projects = contents, !.cards = contents,
                                    !.retryButton = FALSE, !.loads = @ - 1])

\* loadProjects: success false or an exception, showError
LoadProjectsFails ==
    /\ bocIDE.loads > 0
    /\ BocIDEStep([bocIDE EXCEPT !.cards = {}, !.retryButton = TRUE, !.loads = @ - 1])

\* the Retry button of showError
ClickRetryProjects ==
    /\ bocIDE.retryButton
    /\ bocIDE.loads < MaxLoads
    /\ BocIDEStep(loadProjects(bocIDE))

\* the Delete button of a project card
ClickDelete ==
    /\ ~bocIDE.deleteModal
    /\ \E projectName \in bocIDE.cards : BocIDEStep(showDeleteModal(bocIDE, projectName))

\* the Cancel button of the delete modal, or a click on its overlay
ClickCancelDelete ==
    /\ bocIDE.deleteModal
    /\ BocIDEStep(hideDeleteModal(bocIDE))

\* confirmDelete until its first await: the DELETE is sent with the project
\* as folder_path
ConfirmDelete ==
    /\ bocIDE.deleteModal
    /\ Len(bocIDE.deletes) + bocIDE.loads < MaxDeletes
    /\ IF Falsy(bocIDE.projectToDelete) THEN BocIDEStep(bocIDE)
       ELSE BocIDEStep([bocIDE EXCEPT !.deletes =
                          Append(@, [folder_path |-> bocIDE.projectToDelete.v])])

\* confirmDelete: call k goes on with data.success true
ConfirmDeleteResume(k) ==
    /\ k \in 1..Len(bocIDE.deletes)
    /\ LET call     == bocIDE.deletes[k]
           hidden   == hideDeleteModal(bocIDE)
           loading  == loadProjects(hidden)
           notified == showSuccess(loading, TemplateString(loading.projectToDelete),
                                   call.folder_path)
       IN BocIDEStep([notified EXCEPT !.deletes = RemoveAt(@, k)])

\* confirmDelete: call k goes on with data.success false or an exception,
\* and alerts
ConfirmDeleteFails(k) ==
    /\ k \in 1..Len(bocIDE.deletes)
    /\ BocIDEStep([bocIDE EXCEPT !.deletes = RemoveAt(@, k)])

\* showSuccess: the notification is removed after its time
NotificationExpires ==
    /\ bocIDE.notification.shown
    /\ BocIDEStep([bocIDE EXCEPT !.notification = NoNotification])


---------------------------------------------------------------------------
(* The server: requests arrive and their steps interleave *)

Next ==
    \E r \in Reqs :
        \/ ReadFileStat(r)
        \/ ReadFileRead(r)
        \/ WriteFileMkdir(r)
        \/ WriteFileOpen(r)
        \/ WriteFileWrite(r)
        \/ WriteFileStat(r)
        \/ CreateFileAccess(r)
        \/ CreateFileMkdir(r)
        \/ CreateFileOpen(r)
        \/ CreateFileWrite(r)
        \/ CreateFileStat(r)
        \/ DeleteEntryStat(r)
        \/ DeleteEntryRemove(r)
        \/ CreateFolderAccess(r)
        \/ CreateFolderMkdir(r)
        \/ CreateFolderStat(r)
        \/ GetProjectStat(r)
        \/ GetProjectReaddir(r)
        \/ GetProjectStatItem(r)
        \/ DeleteFolderStat(r)
        \/ DeleteFolderRm(r)

Spec == Init /\ [][Next]_vars

---------------------------------------------------------------------------
(* The server on any of the disks, answering a single request: reading,   *)
(* listing or deleting                                                    *)

InitDisk ==
    /\ fs \in Disks
    /\ req = [r \in Reqs |-> IdleReq]
    /\ resp = [r \in Reqs |-> NoResp]
    /\ hist = [r \in Reqs |-> NoHist]
    /\ page = InitialPage(TRUE)
    /\ bocIDE = NewBocIDE

NextDisk ==
    \E r \in Reqs :
        /\ \A q \in Reqs \ {r} : req[q].pc = "idle"
        /\ \/ ReadFileStat(r)
           \/ ReadFileRead(r)
           \/ DeleteEntryStat(r)
           \/ DeleteEntryRemove(r)
           \/ GetProjectStat(r)
           \/ GetProjectReaddir(r)
           \/ GetProjectStatItem(r)

SpecDisk == InitDisk /\ [][NextDisk]_vars

---------------------------------------------------------------------------
(* Listing a project while another request deletes an entry, on the       *)
(* initial disk and on the disks with symbolic links.  The event loop     *)
(* runs every continuation that is ready: a walk under way eventually     *)
(* takes its next step (weak fairness of WalkStep, which is enabled        *)
(* exactly while the request is walking)                                  *)

InitWalk ==
    /\ fs \in LinkDisks \cup {InitialFs}
    /\ req = [r \in Reqs |-> IdleReq]
    /\ resp = [r \in Reqs |-> NoResp]
    /\ hist = [r \in Reqs |-> NoHist]
    /\ page = InitialPage(TRUE)
    /\ bocIDE = NewBocIDE

NextWalk ==
    \E r \in Reqs :
        \/ (\A q \in Reqs : req[q].op # "getProject") /\ GetProjectStat(r)
        \/ GetProjectReaddir(r)
        \/ GetProjectStatItem(r)
        \/ (\A q \in Reqs : req[q].op # "deleteEntry") /\ DeleteEntryStat(r)
        \/ DeleteEntryRemove(r)

Walking(r) == req[r].op = "getProject" /\ req[r].pc = "tree"

WalkStep(r) == GetProjectReaddir(r) \/ GetProjectStatItem(r)

SpecWalk ==
    /\ InitWalk
    /\ [][NextWalk]_vars
    /\ \A r \in Reqs : []<>(~Walking(r)) \/ []<><<WalkStep(r)>>_vars

---------------------------------------------------------------------------
(* The folders router: top-level folders are created and deleted *)

NextFolders ==
    \E r \in Reqs :
        \/ PostFolderAccess(r)
        \/ PostFolderMkdir(r)
        \/ PostFolderSubdir(r)
        \/ PostFolderStat(r)
        \/ DeleteFolderStat(r)
        \/ DeleteFolderRm(r)

SpecFolders == Init /\ [][NextFolders]_vars

---------------------------------------------------------------------------
(* The landing page open in a browser, with the folders router behind it. *)
(* Every fetch is settled in the end and the event loop runs every        *)
(* continuation that is ready: a call of loadFolders under way eventually *)
(* takes its next step (weak fairness of LoadStep, which is enabled       *)
(* exactly while a call is under way)                                     *)

\* the workspace directory cannot be read
UnreadableWorkspace ==
    [InitialFs EXCEPT ![Comps(WorkspacePath)] = [@ EXCEPT !.locked = TRUE]]

InitPage ==
    /\ fs \in {InitialFs, UnreadableWorkspace}
    /\ req = [r \in Reqs |-> IdleReq]
    /\ resp = [r \in Reqs |-> NoResp]
    /\ hist = [r \in Reqs |-> NoHist]
    /\ page \in {InitialPage(hasErrorState) : hasErrorState \in BOOLEAN}
    /\ bocIDE = NewBocIDE

LoadStep == \E k \in 1..MaxLoads : GetFolders(k) \/ LoadFoldersResume(k) \/ LoadFoldersFetchFails(k)

NextPage ==
    \/ DOMContentLoaded
    \/ PressF5
    \/ ClickRetry
    \/ CreateFolderSubmit
    \/ CreateFolderResume
    \/ CreateFolderFetchFails
    \/ \E k \in 1..MaxLoads :
          \/ GetFolders(k)
          \/ LoadFoldersResume(k)
          \/ LoadFoldersFetchFails(k)
    \/ \E r \in Reqs :
          \/ CreateFolderPostArrives(r)
          \/ PostFolderMkdir(r)
          \/ PostFolderSubdir(r)
          \/ PostFolderStat(r)

SpecPage ==
    /\ InitPage
    /\ [][NextPage]_vars
    /\ []<>(page.loads = <<>>) \/ []<><<LoadStep>>_vars


---------------------------------------------------------------------------
(* The projects page open in a browser *)

NextBocIDE ==
    \/ BocIDEInit
    \/ LoadProjectsResume
    \/ LoadProjectsFails
    \/ ClickRetryProjects
    \/ ClickDelete
    \/ ClickCancelDelete
    \/ ConfirmDelete
    \/ NotificationExpires
    \/ \E k \in 1..MaxDeletes :
          \/ ConfirmDeleteResume(k)
          \/ ConfirmDeleteFails(k)

SpecBocIDE == Init /\ [][NextBocIDE]_vars


---------------------------------------------------------------------------
(* Vocabulary of the properties *)

FileOps == {"readFile", "writeFile", "createFile", "deleteEntry", "createFolder"}

\* the entry a request addresses
Target(r) == Comps(req[r].fullFilePath)

InsideWorkspace(c) == IsPrefix(WorkspaceRoot, c)

\* the root the security check of request r confines to
ProjectPath(r) == PathJoin(<<WorkspacePath, req[r].projectName>>)

Started(r) == req[r].pc # "idle"

Finished(r) == req[r].pc = "done"

\* every node of a tree, at any depth
RECURSIVE AllNodes(_)
AllNodes(tree) ==
    {tree[i] : i \in 1..Len(tree)}
        \cup UNION {AllNodes(tree[i].children) : i \in 1..Len(tree)}

\* no name on the way to c is a regular file
NoFileAbove(fsys, c) == \A k \in 1..(Len(c) - 1) : ~IsFile(fsys, SubSeq(c, 1, k))

\* no request besides those of S has arrived
OnlyRequests(S) == \A q \in Reqs \ S : ~Started(q)

---------------------------------------------------------------------------
(* Path confinement *)

\* C1: a file operation whose path resolves outside the workspace root is
\* answered 403 and hands no path to the file system
C1_EscapingPathRejected ==
    \A r \in Reqs :
        (req[r].op \in FileOps /\ ~InsideWorkspace(Target(r)))
            => /\ hist[r].touched = {}
               /\ Finished(r) => resp[r].status = 403

\* C2: the security check passes only for the root itself or a path that
\* begins with the root followed by a separator
C2_ContainmentNeedsSeparator ==
    \A r \in Reqs :
        (req[r].op \in FileOps /\ hist[r].checked)
            => LET resolvedPath == PathResolve(req[r].fullFilePath)
                   resolvedRoot == PathResolve(ProjectPath(r))
               IN \/ resolvedPath = resolvedRoot
                  \/ StartsWith(resolvedPath, resolvedRoot \o <<"/">>)

\* C3: a request hands a path to the file system only after its security
\* check has passed
C3_CheckBeforeFilesystem ==
    \A r \in Reqs : hist[r].touched # {} => hist[r].checked

\* C4: a returned file payload or tree describes only entries inside the
\* workspace root
C4_ResponsesInsideWorkspace ==
    \A r \in Reqs :
        resp[r].status = 200
            => /\ req[r].op = "readFile" => InsideWorkspace(Target(r))
               /\ req[r].op = "getProject"
                    => \A n \in AllNodes(resp[r].tree) :
                          InsideWorkspace(Comps(PathJoin(<<resp[r].projectPath, n.path>>)))

\* the relative path, lexically normalized, does not leave its root
StaysWithinRoot(filePath) ==
    LET kept == NormalizeSegs(Split(filePath), <<>>, TRUE)
    IN Len(kept) = 0 \/ kept[1] # DotDot

\* C5: a relative path that stays within the root after normalization passes
\* the security check, and the path operated on is the one its normalized
\* form resolves to
C5_NormalizedFormSameEntry ==
    \A r \in Reqs :
        (req[r].op \in FileOps /\ Started(r) /\ StaysWithinRoot(req[r].filePath))
            => LET direct == PathJoin(<<WorkspacePath, req[r].projectName,
                                        Normalize(req[r].filePath)>>)
               IN /\ hist[r].checked
                  /\ req[r].fullFilePath = direct
                  /\ hist[r].touched \subseteq {Comps(direct), Comps(PathDirname(direct))}

\* a path with a ".." inside the root has been read
C5_Witness ==
    \E r \in Reqs :
        /\ req[r].op = "readFile"
        /\ req[r].filePath = <<"n", "/", ".", ".", "/", "f">>
        /\ resp[r].status = 200
        /\ hist[r].touched = {Comps(<<"/", "s", "/", "w", "/", "p", "/", "f">>)}

---------------------------------------------------------------------------
(* createFile *)

\* C6: of two overlapping createFile requests for one path that did not
\* exist, one is answered 201 and the other 409, and the file holds the
\* content of the one answered 201
C6_CreateFileExclusive ==
    \A r1, r2 \in Reqs :
        ( /\ r1 # r2
          /\ req[r1].op = "createFile" /\ req[r2].op = "createFile"
          /\ req[r1].fullFilePath = req[r2].fullFilePath
          /\ hist[r1].checked /\ hist[r2].checked
          /\ req[r1].content.type = "string" /\ req[r2].content.type = "string"
          /\ r1 \notin hist[r2].after /\ r2 \notin hist[r1].after
          /\ Target(r1) \notin DOMAIN InitialFs
          /\ OnlyRequests({r1, r2})
          /\ Finished(r1) /\ Finished(r2) )
        => /\ {resp[r1].status, resp[r2].status} = {201, 409}
           /\ \E w \in {r1, r2} :
                 /\ resp[w].status = 201
                 /\ IsFile(fs, Target(w))
                 /\ fs[Target(w)].data = Utf8Encode(req[w].content.v)

\* C7: createFile twice in sequence on one path, new on the initial disk:
\* the first is answered 201, the second 409, and the disk is as the first
\* call left it
C7_SecondCreateFileRejected ==
    \A r1, r2 \in Reqs :
        ( /\ r1 # r2
          /\ req[r1].op = "createFile" /\ req[r2].op = "createFile"
          /\ req[r1].fullFilePath = req[r2].fullFilePath
          /\ hist[r1].checked
          /\ req[r1].content.type = "string"
          /\ hist[r1].after = {} /\ r1 \in hist[r2].after
          /\ OnlyRequests({r1, r2})
          /\ Target(r1) \notin DOMAIN InitialFs
          /\ NoFileAbove(InitialFs, Target(r1)) )
        => LET full    == req[r1].fullFilePath
               parents == FsMkdirP(InitialFs, PathDirname(full)).fs
           IN /\ resp[r1].status = 201
              /\ Finished(r2)
              /\ resp[r2].status = 409
              /\ fs = FsWriteFile(parents, full, req[r1].content.v).fs
              /\ fs[Target(r1)].data = Utf8Encode(req[r1].content.v)

\* a second createFile has been refused after a first one created n/m/f
C7_Witness ==
    /\ req[1].op = "createFile" /\ req[2].op = "createFile"
    /\ req[1].fullFilePath = <<"/", "s", "/", "w", "/", "p", "/", "n", "/", "m", "/", "f">>
    /\ req[2].fullFilePath = req[1].fullFilePath
    /\ req[1].content = JsString(<<97>>)
    /\ req[2].content = JsString(<<>>)
    /\ 1 \in hist[2].after
    /\ resp[1].status = 201
    /\ resp[2].status = 409

---------------------------------------------------------------------------
(* writeFile *)

\* the text survives UTF-8 and the binary test
PlainText(str) == \A i \in 1..Len(str) : ~NonPrintable(str[i]) /\ ~IsSurrogate(str[i])

\* w is a writeFile of a string to a path whose parent is missing on the
\* initial disk, rd a readFile of the same path that arrived after w was
\* answered, and nothing else has run
WriteThenRead(w, rd) ==
    /\ w # rd
    /\ req[w].op = "writeFile" /\ req[rd].op = "readFile"
    /\ req[w].fullFilePath = req[rd].fullFilePath
    /\ hist[w].checked
    /\ req[w].content.type = "string"
    /\ hist[w].after = {} /\ w \in hist[rd].after
    /\ OnlyRequests({w, rd})
    /\ Parent(Target(w)) \notin DOMAIN InitialFs
    /\ NoFileAbove(InitialFs, Target(w))
    /\ Finished(rd)

RoundTrip(w, rd) ==
    /\ resp[w].status = 200
    /\ IsDir(fs, Parent(Target(w)))
    /\ IsFile(fs, Target(w))
    /\ resp[rd].status = 200
    /\ resp[rd].file.isBinary = FALSE
    /\ resp[rd].file.type = "text"
    /\ resp[rd].file.content = JsString(req[w].content.v)

\* C8, as claimed: every string written to a path with missing parents is
\* read back verbatim and as text
C8_RoundTripAnyString ==
    \A w, rd \in Reqs : WriteThenRead(w, rd) => RoundTrip(w, rd)

\* C8, amended: a string without control characters and unpaired surrogates
\* written to a path with missing parents is read back verbatim and as text
C8_RoundTripPlainText ==
    \A w, rd \in Reqs :
        (WriteThenRead(w, rd) /\ PlainText(req[w].content.v)) => RoundTrip(w, rd)

\* "a" has been written to n/m/f and read back
C8_Witness ==
    /\ WriteThenRead(1, 2)
    /\ req[1].filePath = <<"n", "/", "m", "/", "f">>
    /\ req[1].content = JsString(<<97>>)
    /\ resp[2].file.content = JsString(<<97>>)
    /\ IsDir(fs, Comps(<<"/", "s", "/", "w", "/", "p", "/", "n", "/", "m">>))

\* C9, as claimed: a writeFile whose content is no string is answered 400
\* and hands nothing to the file system
C9_NonStringAlways400 ==
    \A r \in Reqs :
        (req[r].op = "writeFile" /\ req[r].content.type # "string" /\ Started(r))
            => /\ Finished(r)
               /\ resp[r].status = 400
               /\ hist[r].touched = {}

\* C9, amended: a writeFile whose content is no string leaves the disk as
\* it is and is answered at once, 400 when its path passes the security
\* check and 403 when it does not
C9_NonStringRejected ==
    [][ \A r \in Reqs :
          (~Started(r) /\ req'[r].op = "writeFile" /\ req'[r].content.type # "string")
              => /\ fs' = fs
                 /\ req'[r].pc = "done"
                 /\ hist'[r].touched = {}
                 /\ resp'[r].status =
                      IF resolvedPathInProject(req'[r].fullFilePath,
                                               PathJoin(<<WorkspacePath, req'[r].projectName>>))
                        THEN 400 ELSE 403 ]_vars

\* a number sent for the existing file f and for the missing n/m/f: both
\* answered 400, f keeps its content and n is not created
C9_Witness ==
    /\ req[1].op = "writeFile" /\ req[2].op = "writeFile"
    /\ req[1].content = JsNumber /\ req[2].content = JsNumber
    /\ req[1].fullFilePath = <<"/", "s", "/", "w", "/", "p", "/", "f">>
    /\ req[2].fullFilePath = <<"/", "s", "/", "w", "/", "p", "/", "n", "/", "m", "/", "f">>
    /\ resp[1].status = 400 /\ resp[2].status = 400
    /\ fs = InitialFs

---------------------------------------------------------------------------
(* deleteEntry *)

\* C10: deleting a non-empty directory removes it with all below it and
\* nothing else, reports a directory, and the tree of its parent has no node
\* for it; deleting a file removes that entry alone and reports a file
C10_DeleteEntryRemoves ==
    [][ \A r \in Reqs :
          (req[r].op = "deleteEntry" /\ req[r].pc = "remove" /\ req'[r].pc = "done")
              => LET full  == req[r].fullFilePath
                     t     == Comps(full)
                     below == {q \in DOMAIN fs : IsPrefix(t, q)}
                 IN /\ (req[r].stats.isDirectory /\ IsDir(fs, t) /\ below # {t})
                          => /\ DOMAIN fs' = DOMAIN fs \ below
                             /\ \A q \in DOMAIN fs' : fs'[q] = fs[q]
                             /\ resp'[r].status = 200
                             /\ resp'[r].message = "Directory deleted successfully"
                             /\ \A n \in AllNodes(getFileTree(fs', PathDirname(full), <<>>)) :
                                   n.name # PathBasename(full) \/ Len(Comps(n.path)) # 1
                    /\ (~req[r].stats.isDirectory /\ IsFile(fs, t))
                          => /\ DOMAIN fs' = DOMAIN fs \ {t}
                             /\ \A q \in DOMAIN fs' : fs'[q] = fs[q]
                             /\ resp'[r].status = 200
                             /\ resp'[r].message = "File deleted successfully" ]_vars

\* directory d of project p, which held file g, has been deleted
C10_Witness ==
    \E r \in Reqs :
        /\ req[r].op = "deleteEntry"
        /\ req[r].fullFilePath = <<"/", "s", "/", "w", "/", "p", "/", "d">>
        /\ resp[r].status = 200
        /\ resp[r].message = "Directory deleted successfully"
        /\ hist[r].after = {}
        /\ OnlyRequests({r})
        /\ DOMAIN fs = DOMAIN InitialFs \ {Comps(<<"/", "s", "/", "w", "/", "p", "/", "d">>),
                                           Comps(<<"/", "s", "/", "w", "/", "p", "/", "d", "/", "g">>)}

---------------------------------------------------------------------------
(* The tree of a project *)

\* the answer to request r carries a tree
Listed(r) == req[r].op = "getProject" /\ resp[r].status = 200

\* every sequence of siblings of a tree: the tree itself and the children of
\* each of its nodes
Levels(tree) == {tree} \cup {n.children : n \in AllNodes(tree)}

\* C11: at every level of a returned tree the directories precede the other
\* nodes, and directories as well as other nodes come in ascending order of
\* their names
C11_LevelsSorted ==
    \A r \in Reqs :
        Listed(r)
            => \A level \in Levels(resp[r].tree) :
                  \A i, j \in 1..Len(level) :
                      i < j => /\ level[j].isDirectory => level[i].isDirectory
                               /\ (level[i].isDirectory = level[j].isDirectory)
                                     => localeCompareLess(level[i].name, level[j].name)

\* project p with directories A and d and files a.txt, b.txt, b\c and f has
\* been listed in that order
C11_Witness ==
    \E r \in Reqs :
        /\ Listed(r)
        /\ [i \in 1..Len(resp[r].tree) |-> resp[r].tree[i].name]
             = << <<"A">>, <<"d">>, <<"a", ".", "t", "x", "t">>, <<"b", ".", "t", "x", "t">>,
                  <<"b", "\\", "c">>, <<"f">> >>
        /\ resp[r].tree[1].isDirectory /\ resp[r].tree[2].isDirectory
        /\ ~resp[r].tree[3].isDirectory

\* the nodes a walk holds: those of the frames on its stack, with all below
\* them, and those of the tree it returned
Collected(stack, tree) ==
    LET held(frame) == frame.tree \cup (IF frame.node = NoNode THEN {} ELSE {frame.node})
        top == UNION {held(stack[k]) : k \in 1..Len(stack)}
    IN top \cup UNION {AllNodes(n.children) : n \in top} \cup AllNodes(tree)

\* what a node says of its entry
Facts(nodes) ==
    {[path |-> n.path, isDirectory |-> n.isDirectory, size |-> n.size] : n \in nodes}

\* C12: a walk answers 200 whatever it meets; a step of it keeps every node
\* collected so far, a subdirectory that cannot be read gets its node with
\* no children, and a subdirectory the step visits has its node afterwards
C12_UnreadableSubdirectoryKeepsRest ==
    [][ \A r \in Reqs :
          (req[r].op = "getProject" /\ req[r].pc = "tree" /\ req'[r] # req[r])
              => LET stack == req[r].walk
                     top   == stack[Len(stack)]
                     after == Collected(req'[r].walk, resp'[r].tree)
                     pending(item) ==
                         /\ Len(req'[r].walk) >= Len(stack)
                         /\ item \in req'[r].walk[Len(stack)].items
                 IN /\ resp'[r].status \in {0, 200}
                    /\ Facts(Collected(stack, <<>>)) \subseteq Facts(after)
                    /\ (~top.listed /\ Len(stack) > 1 /\ ~FsCanReaddir(fs, top.dirPath))
                          => \E n \in after :
                                n.path = top.basePath /\ n.isDirectory /\ n.children = <<>>
                    /\ top.listed
                          => \A item \in top.items :
                                item.isDirectory
                                    => \/ pending(item)
                                       \/ \E n \in after :
                                             n.path = NormalizeSeparators(
                                                          PathJoin(<<top.basePath, item.name>>))
        ]_vars

---------------------------------------------------------------------------
(* readFile *)

\* the size in bytes of the file at c
SizeOnDisk(fsys, c) == ByteLength(fsys[c].data) + fsys[c].pad

\* C13: a readFile that passes the security check is answered 404 when its
\* target is missing, else 400 when it is a directory, else 413 and without
\* a read when it is larger than 10 * 1024 * 1024 bytes; a file of up to that
\* size is read and answered 200
C13_ReadFilePreconditions ==
    [][ \A r \in Reqs :
          /\ ( /\ ~Started(r)
               /\ req'[r].op = "readFile"
               /\ hist'[r].checked )
                => LET c == Comps(req'[r].fullFilePath)
                   IN IF ~Exists(fs, c)
                        THEN req'[r].pc = "done" /\ resp'[r].status = 404
                      ELSE IF IsDir(fs, c)
                        THEN req'[r].pc = "done" /\ resp'[r].status = 400
                      ELSE IF SizeOnDisk(fs, c) > 10 * 1024 * 1024
                        THEN req'[r].pc = "done" /\ resp'[r].status = 413
                      ELSE req'[r].pc = "readFile" /\ resp'[r].status = 0
          /\ (req[r].op = "readFile" /\ req[r].pc = "readFile" /\ req'[r].pc = "done")
                => resp'[r].status = 200 ]_vars

\* a file of exactly 10 * 1024 * 1024 bytes has been read
C13_Witness ==
    \E r \in Reqs :
        /\ req[r].op = "readFile"
        /\ resp[r].status = 200
        /\ resp[r].file.size = 10 * 1024 * 1024
        /\ SizeOnDisk(fs, Target(r)) = 10 * 1024 * 1024

\* the characters the claim counts as control characters
ControlCharacters == (0..8) \cup (14..31) \cup (127..159)

---------------------------------------------------------------------------
(* createFolder *)

\* C15: a createFolder that passes the security check and whose path exists,
\* as a file or as a directory, is answered 409 and changes nothing;
\* otherwise its mkdir step makes the path and every missing parent a
\* directory and touches nothing else, and the request is answered 201
C15_CreateFolderConflictOrCreate ==
    [][ \A r \in Reqs :
          LET c == Comps(req'[r].fullFilePath)
          IN /\ ( /\ ~Started(r)
                  /\ req'[r].op = "createFolder"
                  /\ hist'[r].checked )
                   => IF Exists(fs, c)
                        THEN req'[r].pc = "done" /\ resp'[r].status = 409 /\ fs' = fs
                      ELSE req'[r].pc = "mkdir" /\ fs' = fs
             /\ ( /\ req[r].op = "createFolder"
                  /\ req[r].pc = "mkdir"
                  /\ req'[r].pc # "mkdir"
                  /\ NoFileAbove(fs, c)
                  /\ ~IsFile(fs, c) )
                   => /\ req'[r].pc = "stat"
                      /\ DOMAIN fs' = DOMAIN fs \cup {SubSeq(c, 1, k) : k \in 1..Len(c)}
                      /\ \A q \in DOMAIN fs' : IF q \in DOMAIN fs THEN fs'[q] = fs[q]
                                               ELSE fs'[q].kind = "dir"
             /\ ( /\ req[r].op = "createFolder"
                  /\ req[r].pc = "stat"
                  /\ req'[r].pc # "stat"
                  /\ IsDir(fs, c) )
                   => resp'[r].status = 201 /\ fs' = fs ]_vars

\* folder n/m/f has been created in project p together with n and n/m
C15_Witness ==
    \E r \in Reqs :
        /\ req[r].op = "createFolder"
        /\ req[r].filePath = <<"n", "/", "m", "/", "f">>
        /\ resp[r].status = 201
        /\ OnlyRequests({r})
        /\ DOMAIN fs \ DOMAIN InitialFs
             = { << <<"s">>, <<"w">>, <<"p">>, <<"n">> >>,
                 << <<"s">>, <<"w">>, <<"p">>, <<"n">>, <<"m">> >>,
                 << <<"s">>, <<"w">>, <<"p">>, <<"n">>, <<"m">>, <<"f">> >> }
        /\ \A q \in DOMAIN fs \ DOMAIN InitialFs : fs[q].kind = "dir"

---------------------------------------------------------------------------
(* The workspace root *)

\* C16: the workspace root exists as a directory at all times
C16_WorkspaceRootStays == IsDir(fs, WorkspaceRoot)

---------------------------------------------------------------------------
(* Errors of the file system *)

\* C17: a readFile or deleteEntry is answered 404 only when its target does
\* not exist; when the target exists and the read or the removal that
\* follows the existence check fails, the answer is 500
C17_OtherFailuresAre500 ==
    [][ \A r \in Reqs :
          (req'[r].op \in {"readFile", "deleteEntry"} /\ req[r].pc # "done"
             /\ req'[r].pc = "done")
              => LET c == Comps(req'[r].fullFilePath)
                 IN /\ resp'[r].status = 404 => ~Exists(fs, c)
                    /\ (req[r].pc = "readFile" /\ Exists(fs, c)
                          /\ (IsDir(fs, c) \/ fs[c].locked))
                          => resp'[r].status = 500
                    /\ (req[r].pc = "remove" /\ Exists(fs, c) /\ Exists(fs', c))
                          => resp'[r].status = 500 ]_vars

---------------------------------------------------------------------------
(* Concurrent writeFile *)

\* w1 and w2 are overlapping writeFile requests with string contents for one
\* path that passes the security check and is no directory, and no other
\* request has arrived
ConcurrentWrites(w1, w2) ==
    /\ w1 # w2
    /\ req[w1].op = "writeFile" /\ req[w2].op = "writeFile"
    /\ req[w1].fullFilePath = req[w2].fullFilePath
    /\ hist[w1].checked /\ hist[w2].checked
    /\ req[w1].content.type = "string" /\ req[w2].content.type = "string"
    /\ w1 \notin hist[w2].after /\ w2 \notin hist[w1].after
    /\ ~IsDir(InitialFs, Target(w1))
    /\ NoFileAbove(InitialFs, Target(w1))
    /\ OnlyRequests({w1, w2})

\* C18: of two concurrent writeFile requests for one path both are answered
\* 200, and when the later of the two write steps completes the file holds
\* the content of that request
C18_LastWriteWins ==
    [][ \A w1, w2 \in Reqs :
          ConcurrentWrites(w1, w2)
              => /\ req'[w1].pc = "done" => resp'[w1].status = 200
                 /\ ( /\ req[w1].pc = "write" /\ req'[w1].pc = "stat"
                      /\ req[w2].pc \in {"stat", "done"} )
                       => /\ IsFile(fs', Target(w1))
                          /\ fs'[Target(w1)].data = Utf8Encode(req[w1].content.v) ]_vars

---------------------------------------------------------------------------
(* The nodes of a tree *)

\* C19: in a returned tree a directory node has size 0, no extension and a
\* children sequence, and any other node has no children
C19_NodeShape ==
    \A r \in Reqs :
        Listed(r)
            => \A n \in AllNodes(resp[r].tree) :
                  IF n.isDirectory
                    THEN n.size = 0 /\ n.extension = <<"null">> /\ n.hasChildren
                  ELSE ~n.hasChildren /\ n.children = <<>>

HasBackslash(s) == \E i \in 1..Len(s) : s[i] = "\\"

\* every node of tree, the listing of directory dir, has a path that joined
\* to base leads to the entry of its name in dir, an entry of the node's
\* kind, and so below it; with skipBackslash, a node whose name holds a
\* backslash is passed over with all below it
RECURSIVE PathsLeadToEntries(_, _, _, _, _)
PathsLeadToEntries(fsys, base, tree, dir, skipBackslash) ==
    \A i \in 1..Len(tree) :
        LET n     == tree[i]
            entry == Append(dir, n.name)
        IN (skipBackslash /\ HasBackslash(n.name))
              \/ /\ Comps(PathJoin(<<base, n.path>>)) = entry
                 /\ Exists(fsys, entry)
                 /\ (fsys[entry].kind = "dir") = n.isDirectory
                 /\ PathsLeadToEntries(fsys, base, n.children, entry, skipBackslash)

---------------------------------------------------------------------------
(* Folder names *)

MyProject == <<"M", "y", " ", "P", "r", "o", "j", "e", "c", "t", "!", "!">>

\* the requests that sanitized a name
Sanitized == {r \in Reqs : req[r].op \in FolderOps /\ req[r].name.type = "string"}

\* no invalid character, no whitespace and no capital letter is left
CleanName(s) ==
    \A i \in 1..Len(s) :
        /\ s[i] \notin {"<", ">", ":", "\"", "/", "\\", "|", "?", "*", " ", "\t", "\n", "U+0130"}
        /\ \A k \in 1..Len(UpperCase) : s[i] # UpperCase[k]

\* C21 as stated: sanitization leaves no invalid character, no whitespace and
\* no capital letter, and "My Project!!" sanitizes to "my-project"
C21_MyProjectSanitized ==
    \A r \in Sanitized :
        /\ CleanName(req[r].sanitizedName)
        /\ req[r].name.v = MyProject
             => req[r].sanitizedName = <<"m", "y", "-", "p", "r", "o", "j", "e", "c", "t">>

\* the characters of a name that are neither removed nor replaced
Kept(s) ==
    SelectSeq(s, LAMBDA ch : ch \notin {"<", ">", ":", "\"", "/", "\\", "|", "?", "*",
                                        " ", "\t", "\n", "-"})

\* C21, amended: sanitization removes the characters <>:"/\|?*, turns each run
\* of whitespace left into one hyphen and lowercases the rest, every other
\* character staying: "My Project!!" sanitizes to "my-project!!"
C21_SanitizedKeepsOtherCharacters ==
    \A r \in Sanitized :
        LET name == req[r].name.v
            sanitized == req[r].sanitizedName
        IN /\ CleanName(sanitized)
           /\ Len(Kept(sanitized)) >= Len(Kept(name))
           /\ \A i \in 1..Len(Kept(name)) :
                  Kept(name)[i] \in {"!", ".", "a", "b", "n", "p", "x", "5"}
                      => \E j \in i..Len(Kept(sanitized)) : Kept(sanitized)[j] = Kept(name)[i]
           /\ name = MyProject
                => sanitized = <<"m", "y", "-", "p", "r", "o", "j", "e", "c", "t", "!", "!">>
           /\ name = <<"a", " ", "\t", "b">> => sanitized = <<"a", "-", "b">>
           /\ name = <<" ", "a", " ">> => sanitized = <<"-", "a", "-">>
           /\ name = <<"<", "a", ">">> => sanitized = <<"a">>
           /\ name = <<"C", "O", "N">> => sanitized = <<"c", "o", "n">>

C21_Witness ==
    \E r \in Reqs :
        /\ req[r].name = JsString(MyProject)
        /\ req[r].sanitizedName = <<"m", "y", "-", "p", "r", "o", "j", "e", "c", "t", "!", "!">>
        /\ resp[r].status = 201


\* the sanitized form is not empty, no longer than the maximum and not a
\* reserved name
Acceptable(name, sanitized) ==
    /\ name.type = "string"
    /\ Len(sanitized) > 0
    /\ Len(sanitized) <= 50
    /\ sanitized \notin reserved

\* C22: a name submitted to POST /api/folders is validated before any
\* filesystem call: it is accepted exactly when its sanitized form is not
\* empty, at most 50 long (50 is accepted) and not reserved, and a rejected
\* name is answered 400 with the disk unchanged
C22_ValidatedBeforeFilesystem ==
    [][\A r \in Reqs :
          req[r].pc = "idle" /\ req'[r].op \in FolderOps
            => LET acceptable == Acceptable(req'[r].name, req'[r].sanitizedName)
               IN /\ resp'[r].status = 400 <=> ~acceptable
                  /\ ~acceptable => fs' = fs /\ hist'[r].touched = {}
                  /\ acceptable => resp'[r].status \in {0, 409}
                  /\ req'[r].name.v = <<"C", "O", "N">> => resp'[r].status = 400
                  /\ req'[r].name.v = <<"c", "o", "n">> => resp'[r].status = 400]_vars

\* a name whose sanitized form has exactly the maximum length was accepted
\* and created, and a longer one was refused
C22_Witness ==
    \E r, q \in Reqs :
        /\ req[r].name = JsString(Append(Repeat("A", 50), "/"))
        /\ Len(req[r].sanitizedName) = 50
        /\ resp[r].status = 201
        /\ req[q].name = JsString(Repeat("a", 51))
        /\ resp[q].status = 400


---------------------------------------------------------------------------
(* Top-level folder creation stays in the workspace *)

\* C27: POST /api/folders creates or changes nothing outside the workspace
\* root: the sanitized name has no path separator, and the names "." and
\* ".." are answered 409 with nothing created
C27_CreationStaysInWorkspace ==
    [][\A r \in Reqs :
          req'[r].op \in FolderOps /\ req'[r] # req[r]
            => /\ \A c \in DOMAIN fs' :
                    ~IsPrefix(WorkspaceRoot, c) => c \in DOMAIN fs /\ fs'[c] = fs[c]
               /\ \A i \in 1..Len(req'[r].sanitizedName) :
                    req'[r].sanitizedName[i] \notin {"/", "\\"}
               /\ req'[r].name.v \in {<<".">>, <<".", ".">>}
                    => resp'[r].status = 409 /\ fs' = fs]_vars


---------------------------------------------------------------------------
(* The metadata a write returns *)

\* C23: the size a successful writeFile returns is that of the file as this
\* request wrote it, whatever writeFile and deleteEntry requests on the same
\* path run at the same time
C23_ReturnedSizeIsOwn ==
    \A w \in Reqs :
        ( /\ req[w].op = "writeFile"
          /\ Finished(w)
          /\ resp[w].status = 200
          /\ \A q \in Reqs \ {w} :
                Started(q) => /\ req[q].op \in {"writeFile", "deleteEntry"}
                              /\ Target(q) = Target(w) )
            => resp[w].file.size = ByteLength(Utf8Encode(req[w].content.v))


---------------------------------------------------------------------------
(* Two deletions of the same entry *)

\* requests a and b are the only ones, both deleteEntry on the same entry,
\* which was on the disk when the server started, and both are answered
BothDeleted(a, b) ==
    /\ a # b
    /\ OnlyRequests({a, b})
    /\ req[a].op = "deleteEntry" /\ req[b].op = "deleteEntry"
    /\ Target(a) = Target(b)
    /\ Target(a) \in DOMAIN InitialFs
    /\ Finished(a) /\ Finished(b)
    /\ resp[a].status # 403

\* C26 as stated: of two deleteEntry requests on the same existing entry,
\* one reports the deletion and the other 404
C26_ExactlyOneDeletes ==
    \A a, b \in Reqs :
        BothDeleted(a, b) => {resp[a].status, resp[b].status} = {200, 404}

\* C26, amended: at least one of the two reports the deletion and the entry
\* is gone; on a file the other reports 404; on a directory the other reports
\* 404 or, if it arrived before the first was answered, the deletion too
C26_AtLeastOneDeletes ==
    \A a, b \in Reqs :
        BothDeleted(a, b)
            => /\ 200 \in {resp[a].status, resp[b].status}
               /\ {resp[a].status, resp[b].status} \subseteq {200, 404}
               /\ Target(a) \notin DOMAIN fs
               /\ InitialFs[Target(a)].kind = "file"
                    => {resp[a].status, resp[b].status} = {200, 404}
               /\ resp[a].status = resp[b].status
                    => a \notin hist[b].after /\ b \notin hist[a].after

\* two deletions of file f of project p overlapped, and one was answered 404
C26_Witness ==
    \E a, b \in Reqs :
        /\ BothDeleted(a, b)
        /\ Target(a) = << <<"s">>, <<"w">>, <<"p">>, <<"f">> >>
        /\ a \notin hist[b].after /\ b \notin hist[a].after
        /\ resp[a].status = 200 /\ resp[b].status = 404


---------------------------------------------------------------------------
(* The walk of getFileTree ends *)

\* the calls a walk of directory c has ahead, after its fs.readdir: one
\* fs.stat for every entry below c and one fs.readdir for every directory
\* below c
CallsBelow(fsys, c) ==
    LET below == {q \in DOMAIN fsys : IsPrefix(c, q) /\ q # c}
    IN Cardinality(below) + Cardinality({q \in below : fsys[q].kind = "dir"})

\* the calls a walk that enters path c has ahead
CallsFor(fsys, c) == 1 + (IF IsDir(fsys, c) THEN CallsBelow(fsys, c) ELSE 0)

RECURSIVE CallsForItems(_, _, _)
CallsForItems(fsys, dirPath, items) ==
    IF items = {} THEN 0
    ELSE LET item == CHOOSE i \in items : TRUE
             c    == Comps(PathJoin(<<dirPath, item.name>>))
         IN 1 + (IF item.isDirectory THEN CallsFor(fsys, c) ELSE 0)
              + CallsForItems(fsys, dirPath, items \ {item})

\* the filesystem calls the walk of a request has ahead at most
RECURSIVE CallsAhead(_, _)
CallsAhead(fsys, stack) ==
    IF Len(stack) = 0 THEN 0
    ELSE LET frame == Head(stack)
         IN (IF frame.listed THEN CallsForItems(fsys, frame.dirPath, frame.items)
             ELSE CallsFor(fsys, Comps(frame.dirPath)))
              + CallsAhead(fsys, Tail(stack))

\* C24: the walk ends with a tree for every directory structure, symbolic
\* link cycles included: each step of it leaves fewer filesystem calls ahead,
\* it enters only what is a directory itself, never a link, the node of a
\* link has no children, and a walk under way has a step to take and is
\* answered
C24_WalkEnds ==
    /\ [][\A r \in Reqs :
            Walking(r) /\ req'[r] # req[r]
              => /\ CallsAhead(fs', req'[r].walk) < CallsAhead(fs, req[r].walk)
                 /\ Walking(r)' => LET top == req'[r].walk[Len(req'[r].walk)]
                                   IN ~top.listed \/ top.items # {}
                 /\ Len(req'[r].walk) > Len(req[r].walk)
                      => fs[Comps(req'[r].walk[Len(req'[r].walk)].dirPath)].kind = "dir"
                 /\ req'[r].pc = "done"
                      => /\ resp'[r].status = 200
                         /\ \A n \in AllNodes(resp'[r].tree) :
                               ~n.isDirectory => n.children = <<>>]_vars
    /\ \A r \in Reqs : Walking(r) ~> Finished(r)

\* project p, in which link l leads back to p itself, has been listed with
\* d, f and l, the node of l without children
C24_Witness ==
    \E r \in Reqs :
        /\ Listed(r)
        /\ req[r].projectName = <<"p">>
        /\ Exists(fs, << <<"s">>, <<"w">>, <<"p">>, <<"l">> >>)
        /\ fs[<< <<"s">>, <<"w">>, <<"p">>, <<"l">> >>].target = <<"/", "s", "/", "w", "/", "p">>
        /\ {n.name : n \in AllNodes(resp[r].tree)} = {<<"d">>, <<"g">>, <<"f">>, <<"l">>}
        /\ \A n \in AllNodes(resp[r].tree) :
              n.name = <<"l">> => ~n.isDirectory /\ n.children = <<>>


---------------------------------------------------------------------------
(* A failing fs.stat inside getFileTree *)

\* C25: when fs.stat fails for the entry a step of getFileTree looks at, the
\* call returns the empty sequence for the whole directory: the nodes it had
\* collected for the entry's siblings are in no tree afterwards, the node of
\* the directory (when it has one) has no children, the outermost call
\* answers 200 with an empty tree, and no error status is sent
C25_StatFailureEmptiesListing ==
    [][ \A r \in Reqs :
          (Walking(r) /\ req[r].walk[Len(req[r].walk)].listed /\ req'[r] # req[r])
              => LET stack == req[r].walk
                     top   == stack[Len(stack)]
                     after == Collected(req'[r].walk, resp'[r].tree)
                     itemPath(item) == PathJoin(<<top.dirPath, item.name>>)
                     looksAt(item) ==
                         Comps(itemPath(item)) \in hist'[r].touched \ hist[r].touched
                 IN \A item \in top.items :
                       (looksAt(item) /\ ~FsStat(fs, itemPath(item)).ok)
                           => /\ resp'[r].status \in {0, 200}
                              /\ \A n \in top.tree : n.path \notin {m.path : m \in after}
                              /\ NormalizeSeparators(PathJoin(<<top.basePath, item.name>>))
                                    \notin {m.path : m \in after}
                              /\ IF Len(stack) = 1
                                   THEN /\ req'[r].pc = "done"
                                        /\ resp'[r].status = 200
                                        /\ resp'[r].tree = <<>>
                                 ELSE \E n \in after :
                                         /\ n.path = stack[Len(stack) - 1].node.path
                                         /\ n.children = <<>> ]_vars

\* project p holds the file f, the directory d and the link l to the missing
\* /s/w/p/x, and its listing has been answered with an empty tree
C25_Witness ==
    \E r \in Reqs :
        /\ Listed(r)
        /\ req[r].projectName = <<"p">>
        /\ Exists(fs, << <<"s">>, <<"w">>, <<"p">>, <<"l">> >>)
        /\ fs[<< <<"s">>, <<"w">>, <<"p">>, <<"l">> >>].target
             = <<"/", "s", "/", "w", "/", "p", "/", "x">>
        /\ Exists(fs, << <<"s">>, <<"w">>, <<"p">>, <<"f">> >>)
        /\ Exists(fs, << <<"s">>, <<"w">>, <<"p">>, <<"d">> >>)
        /\ resp[r].tree = <<>>


---------------------------------------------------------------------------
(* The landing page after a folder was created *)

\* C28: when createFolder got a success response and the loadFolders call it
\* awaited has returned, the folders variable holds the folder just created
C28_CreatedFolderIsListed ==
    [][ (page.create.pc # "done" /\ page'.create.pc = "done" /\ page'.create.created)
            => page'.create.folder \in page'.folders ]_vars


---------------------------------------------------------------------------
(* The isLoading flag of the landing page *)

\* C29: at most one call of loadFolders has a fetch under way, and isLoading
\* is true exactly while one has; a call made while isLoading is true starts
\* no fetch; every call that ends, whether its fetch succeeded, answered
\* success false or was rejected, leaves isLoading false; and whenever
\* isLoading is true it becomes false again
C29_OneLoadAtATime ==
    /\ [](Len(page.loads) <= 1 /\ (page.isLoading <=> page.loads # <<>>))
    /\ [][ /\ page.isLoading => Len(page'.loads) <= Len(page.loads)
           /\ Len(page'.loads) < Len(page.loads) => ~page'.isLoading ]_vars
    /\ page.isLoading ~> ~page.isLoading

\* createFolder called loadFolders while a call was under way and went on
\* without a fetch; the call under way has failed since, which shows the
\* retry button, and isLoading is false again
C29_Witness ==
    /\ page.create.pc = "done"
    /\ page.create.atOnce
    /\ page.retryButton
    /\ ~page.isLoading
    /\ page.loads = <<>>


---------------------------------------------------------------------------
(* The projects page after a deletion *)

\* C30: when confirmDelete shows its success notification, the notification
\* names the project the call was confirmed with, the delete modal is
\* hidden and projectToDelete is null
C30_NotificationNamesProject ==
    [][ (bocIDE'.notification # bocIDE.notification /\ bocIDE'.notification.shown)
            => /\ bocIDE'.notification.project = bocIDE'.notification.confirmed
               /\ ~bocIDE'.deleteModal
               /\ bocIDE'.projectToDelete = JsNull ]_vars

====
